---- MODULE Spec2Model ----
(***************************************************************************)
(* Verification model of the scheduling, quota and resumability core of    *)
(* the news-classification repository:                                     *)
(*   - the wave scheduler   (batch_processing/process_large_batch.py,      *)
(*                           process_with_batch_api)                       *)
(*   - the rate-limited concurrent dispatcher (news_analyzer.py,           *)
(*                           NewsAnalyzer.llm_analyzer)                    *)
(*   - the resumable real-time processor (process_large_batch.py,          *)
(*                           process_with_realtime_api)                    *)
(* Each component has its own specification (SpecWave, SpecDispatch,       *)
(* SpecRealtime) over the shared variable tuple; the variables of the      *)
(* other components stay at their initial values.                          *)
(***************************************************************************)
EXTENDS Integers, Sequences, FiniteSets, TLC

(***************************************************************************)
(* Bounds of the model (not program constants).                            *)
(***************************************************************************)
\* number of completely filled waves an input may contain
MaxFullWaves == 2

(***************************************************************************)
(* Program constants.                                                      *)
(***************************************************************************)
BATCH_SIZE == 1000
AVG_INPUT_TOKENS_PER_ARTICLE == 2800
BATCH_ENQUEUED_TOKENS_LIMIT == 10000000
BATCH_LIMIT == 500

\* int(BATCH_ENQUEUED_TOKENS_LIMIT * 0.9)
SAFE_ENQUEUED_TOKENS == (BATCH_ENQUEUED_TOKENS_LIMIT * 9) \div 10

\* a wave sized from the raw ceiling, without the 90% margin
MAX_ARTICLES_PER_WAVE_NoMargin == BATCH_ENQUEUED_TOKENS_LIMIT \div AVG_INPUT_TOKENS_PER_ARTICLE

MAX_ARTICLES_PER_WAVE == SAFE_ENQUEUED_TOKENS \div AVG_INPUT_TOKENS_PER_ARTICLE

Min(a, b) == IF a < b THEN a ELSE b

(***************************************************************************)
(* Wave scheduler: state of one run of process_with_batch_api.             *)
(* A slice of the item list is a record [lo, hi): items[lo:hi].            *)
(***************************************************************************)
VARIABLES
    nItems,          \* len(items)
    wait_for_waves,  \* argument wait_for_waves
    max_batch_size,  \* processor.max_batch_size
    waves,           \* list of wave slices
    wave_num,        \* loop variable of "for wave_num, wave_items in enumerate(waves, 1)"
    batches,         \* split_into_batches(wave_items, BATCH_SIZE)
    batch_i,         \* loop variable i of the submission loop
    wave_job_ids,    \* job_info records of the current wave
    all_job_ids,     \* job_info records of the run
    job_tracking,    \* contents of job_tracking.json (<<>> while not written)
    job_metadata,    \* job ids in the "{batch_name}_job.json" files
    jobState,        \* provider side: state of job k (job ids are 1..Len)
    poll_idx,        \* position of the polling round in wave_job_ids
    completed,       \* counters of the current polling round
    failed,
    running,
    attempts,        \* history: every prepare/submit attempt and its outcome
    poll_raised,     \* history: a check_status call of a polling round raised
    bPc              \* position of the run

waveVars == <<nItems, wait_for_waves, max_batch_size, waves, wave_num, batches,
              batch_i, wave_job_ids, all_job_ids, job_tracking, job_metadata,
              jobState, poll_idx, completed, failed, running, attempts,
              poll_raised, bPc>>

(***************************************************************************)
(* Dispatcher: state of one NewsAnalyzer and of its llm_analyzer callers.  *)
(* Time is counted in ticks of 25 ms.                                      *)
(***************************************************************************)
VARIABLES
    max_concurrent,      \* self.max_concurrent
    llm_semaphore,       \* self._llm_semaphore: 0 (None) or an index of sems
    sems,                \* the Semaphore objects created so far: their values
    semaphore_lock,      \* self._semaphore_lock: 0 (free) or the holder
    rate_limit_lock,     \* self._rate_limit_lock: 0 (free) or the holder
    last_request_time,   \* self._last_request_time
    now,                 \* the clock read by time.time()
    dPc,                 \* position of each caller in llm_analyzer
    mySem,               \* local variable semaphore of each caller
    wake,                \* end of the asyncio.sleep of each caller
    callOutcome,         \* history: how the call of each caller ended
    caller_gets,         \* what llm_analyzer gave each caller: "result" or the
                         \* exception it raised ("none" while it runs)
    dispatches           \* history: the values written to _last_request_time

dispatchVars == <<max_concurrent, llm_semaphore, sems, semaphore_lock,
                  rate_limit_lock, last_request_time, now, dPc, mySem, wake,
                  callOutcome, caller_gets, dispatches>>

(***************************************************************************)
(* Real-time processor: state of the runs of process_with_realtime_api     *)
(* over one item list and one checkpoint file.                             *)
(***************************************************************************)
VARIABLES
    rtItems,         \* len(items); the items have the ids 1..rtItems
    items_per_day,   \* argument items_per_day
    fileExists,      \* Path(output_file).exists()
    file,            \* contents of output_file
    results,         \* local variable results
    processed_ids,   \* local variable processed_ids
    items_to_process,\* local variable items_to_process (ids)
    rtI,             \* loop variable i
    today_count,     \* local variable today_count
    rtPc,            \* position of the run
    invocations,     \* history: number of invocations started
    processedBefore, \* history: ids in the checkpoint when the run started
    sessionAttempts, \* history: ids attempted by the current invocation
    inferenceCalls   \* history: the calls of the invocation that reached the dispatcher

rtVars == <<rtItems, items_per_day, fileExists, file, results, processed_ids,
            items_to_process, rtI, today_count, rtPc, invocations,
            processedBefore, sessionAttempts, inferenceCalls>>

(***************************************************************************)
(* State of the tracking of one submitted job (batch_processor.py:          *)
(* check_status, wait_for_completion, retrieve_results).                    *)
(***************************************************************************)
VARIABLES
    batch_job_state, \* provider side: batch_job.state of the job
    job_visible,     \* provider side: the job can be looked up
    metadata_status, \* "status" in "{batch_name}_job.json"
    csResult,        \* what the last call of check_status gave: a state,
                     \* "raised" or "none" (not called)
    poll_interval,   \* argument poll_interval of wait_for_completion
    max_wait_time,   \* argument max_wait_time of wait_for_completion
    elapsed,         \* time.time() - start_time
    status,          \* local variable status of wait_for_completion: the
                     \* state the last poll gave ("none" before the first)
    polls,           \* history: polls made by the current wait_for_completion
    wPc,             \* position of wait_for_completion
    wReturn,         \* what wait_for_completion returned
    rPc,             \* position of retrieve_results
    rState,          \* batch_job.state as retrieve_results got it
    rError,          \* the state named by the ValueError of retrieve_results
    downloaded       \* history: the call downloaded the output file

jobVars == <<batch_job_state, job_visible, metadata_status, csResult,
             poll_interval, max_wait_time, elapsed, status,
             polls, wPc, wReturn, rPc, rState, rError, downloaded>>

(***************************************************************************)
(* State of one batch file and of the reading of its job's output           *)
(* (batch_processor.py: prepare_batch_from_contents, retrieve_results).     *)
(* "request_{idx}" is written idx.                                          *)
(***************************************************************************)
VARIABLES
    contents,        \* argument contents: records [id, has_content]
    batch_requests,  \* "{batch_name}.jsonl": the custom_id of each line
    id_mapping,      \* "{batch_name}_mapping.json": custom_id -> item id
    output_lines,    \* "{batch_name}_results.jsonl" as downloaded
    line_i,          \* position of "for line in f"
    batch_results,   \* local variable results of retrieve_results
    warnings,        \* history: custom_ids of the logger.warning calls
    fPc              \* position in the life of the batch file

fileVars == <<contents, batch_requests, id_mapping, output_lines, line_i,
              batch_results, warnings, fPc>>

(***************************************************************************)
(* State of one run of the entity batch script                              *)
(* (batch_processing/entity_batch.py).                                      *)
(***************************************************************************)
VARIABLES
    env_ok,             \* the required environment variables are set
    articles,           \* len(articles) as fetched
    article_idx,        \* loop variable idx
    articles_processed, \* stats["articles_processed"]
    articles_failed,    \* stats["articles_failed"]
    marked,             \* database: articles marked as extracted
    exit_code,          \* argument of sys.exit (-1: not yet called)
    attempted,          \* history: articles whose processing was started
    fatal,              \* history: process_article_batch raised
    ePc                 \* position of the run

entityVars == <<env_ok, articles, article_idx, articles_processed,
                articles_failed, marked, exit_code, attempted, fatal, ePc>>

(***************************************************************************)
(* The batch workflow: one call of process_batch_workflow                  *)
(* (batch_processor.py), which drives the job of the tracker above.        *)
(***************************************************************************)
VARIABLES
    wait_for_completion, \* argument wait_for_completion
    workflow_calls,      \* history: the steps the workflow has called
    workflow_result,     \* what the workflow returned ("none": nothing yet)
    wfPc                 \* position of the workflow

workflowVars == <<wait_for_completion, workflow_calls, workflow_result, wfPc>>

(***************************************************************************)
(* The cached analyzer: get_analyzer and shutdown_analyzer                 *)
(* (news_analyzer.py) as called by several threads.                        *)
(***************************************************************************)
VARIABLES
    api_key,               \* GOOGLE_API_KEY or GEMINI_API_KEY is set
    cached_analyzer,       \* _cached_analyzer (0: None, k: the k-th instance)
    cached_analyzer_lock,  \* _cached_analyzer_lock (0: free, t: held by t)
    created,               \* number of NewsAnalyzer instances constructed
    resets,                \* number of resets by shutdown_analyzer
    get_calls,             \* number of get_analyzer calls started
    returns,               \* history: what each get_analyzer call returned
    gPc                    \* position of each thread

singletonVars == <<api_key, cached_analyzer, cached_analyzer_lock, created,
                   resets, get_calls, returns, gPc>>

(***************************************************************************)
(* The results endpoint: requests to get_batch_results (batch_api.py) for  *)
(* the job of the tracker above.                                           *)
(***************************************************************************)
VARIABLES
    requests,            \* number of requests received
    endpoint_state,      \* status["state"] of the request ("none": not read)
    raised_status,       \* status code of the HTTPException raised in the
                         \* try block (0: none)
    http_status,         \* status code of the response (0: no response yet)
    retrieve_called,     \* history: the request called retrieve_results
    epPc                 \* position of the request

endpointVars == <<requests, endpoint_state, raised_status, http_status,
                  retrieve_called, epPc>>

serviceVars == <<workflowVars, singletonVars, endpointVars>>

vars == <<waveVars, dispatchVars, rtVars, jobVars, fileVars, entityVars,
          serviceVars>>

\* remainders of the item count beyond the completely filled waves
TailSizes == {0, 1, 214, 500, 501, 999, 1000, 1001, 1214, 2000, 3213}

\* item count of the docstring of process_with_batch_api ("For 12,000 items")
ScenarioAItems == {12000}

BatchInputSizes ==
    {w * MAX_ARTICLES_PER_WAVE + r : w \in 0..MaxFullWaves, r \in TailSizes}
        \cup ScenarioAItems

\* the division rounds down
NumWavesRoundedDown(n) == n \div MAX_ARTICLES_PER_WAVE

\* num_waves = (len(items) + MAX_ARTICLES_PER_WAVE - 1) // MAX_ARTICLES_PER_WAVE
NumWaves(n) == (n + MAX_ARTICLES_PER_WAVE - 1) \div MAX_ARTICLES_PER_WAVE

\* the slice items[start_idx:end_idx] of wave wave_num (0-based in the code)
WaveSlice(k, n) ==
    LET start_idx == k * MAX_ARTICLES_PER_WAVE
        end_idx   == Min(start_idx + MAX_ARTICLES_PER_WAVE, n)
    IN  [lo |-> start_idx, hi |-> end_idx]

BuildWaveList(n) == [k \in 1..NumWaves(n) |-> WaveSlice(k - 1, n)]

SliceLen(s) == IF s.hi > s.lo THEN s.hi - s.lo ELSE 0

\* only the completely filled batches are made
split_into_full_batches(s, batch_size) ==
    [b \in 1..(SliceLen(s) \div batch_size) |->
        [lo |-> s.lo + (b - 1) * batch_size, hi |-> s.lo + b * batch_size]]

\* [items[i:i + batch_size] for i in range(0, len(items), batch_size)]
split_into_batches(s, batch_size) ==
    LET len == SliceLen(s)
        cnt == (len + batch_size - 1) \div batch_size
    IN  [b \in 1..cnt |->
            [lo |-> s.lo + (b - 1) * batch_size,
             hi |-> Min(s.lo + b * batch_size, s.hi)]]

\* the size check at the head of prepare_batch_from_contents
prepare_batch_from_contents(size, limit) ==
    IF size > limit THEN "ValueError" ELSE "ok"

\* what the provider may answer to upload_file / batch_predict
SubmitOutcomes == {"ok", "429", "error"}

TerminalStates == {"JOB_STATE_SUCCEEDED", "JOB_STATE_FAILED", "JOB_STATE_CANCELLED"}

\* provider-side job life cycle
ProviderNext(s) ==
    IF s = "JOB_STATE_PENDING"
    THEN {"JOB_STATE_RUNNING", "JOB_STATE_CANCELLED"}
    ELSE IF s = "JOB_STATE_RUNNING" THEN TerminalStates ELSE {}

\* a round that merely finished is taken for a finished wave
WaveCompleteAnyRound(c, f, r, n) == c + f + r <= n

\* "if completed + failed == len(wave_job_ids): break"
WaveComplete(c, f, r, n) == c + f = n

InitWave ==
    /\ nItems \in BatchInputSizes
    /\ wait_for_waves \in BOOLEAN
    /\ max_batch_size = BATCH_LIMIT
    /\ waves = <<>>
    /\ wave_num = 0
    /\ batches = <<>>
    /\ batch_i = 0
    /\ wave_job_ids = <<>>
    /\ all_job_ids = <<>>
    /\ job_tracking = <<>>
    /\ job_metadata = {}
    /\ jobState = <<>>
    /\ poll_idx = 0
    /\ completed = 0
    /\ failed = 0
    /\ running = 0
    /\ attempts = <<>>
    /\ poll_raised = FALSE
    /\ bPc = "start"

\* the wave list is built (lines 97-103) and the first wave is entered
BuildWaves ==
    /\ bPc = "start"
    /\ waves' = BuildWaveList(nItems)
    /\ IF NumWaves(nItems) = 0
       THEN /\ bPc' = "done"
            /\ UNCHANGED <<wave_num, batches, batch_i>>
       ELSE /\ bPc' = "submit"
            /\ wave_num' = 1
            /\ batches' = split_into_batches(WaveSlice(0, nItems), BATCH_SIZE)
            /\ batch_i' = 1
    /\ UNCHANGED <<nItems, wait_for_waves, poll_raised, max_batch_size, wave_job_ids,
                   all_job_ids, job_tracking, job_metadata, jobState, poll_idx,
                   completed, failed, running, attempts, dispatchVars,
                   rtVars,
                   jobVars, fileVars, entityVars, serviceVars>>

\* the next iteration of the wave loop, or the end of the run
EnterNextWave ==
    IF wave_num < Len(waves)
    THEN /\ wave_num' = wave_num + 1
         /\ batches' = split_into_batches(waves[wave_num + 1], BATCH_SIZE)
         /\ batch_i' = 1
         /\ wave_job_ids' = <<>>
         /\ bPc' = "submit"
    ELSE /\ bPc' = "done"
         /\ wave_job_ids' = wave_job_ids
         /\ UNCHANGED <<wave_num, batches, batch_i>>

\* what follows an iteration of the submission loop: the next batch, the
\* wait for the wave (lines 162-173), the next wave or the end of the run
AfterBatch(wjobs) ==
    IF batch_i < Len(batches)
    THEN /\ batch_i' = batch_i + 1
         /\ wave_job_ids' = wjobs
         /\ bPc' = "submit"
         /\ UNCHANGED <<wave_num, batches, poll_idx, completed, failed,
                        running>>
    ELSE IF wait_for_waves /\ wave_num < Len(waves)
    THEN /\ bPc' = "poll"
         /\ wave_job_ids' = wjobs
         /\ poll_idx' = 1
         /\ completed' = 0
         /\ failed' = 0
         /\ running' = 0
         /\ UNCHANGED <<wave_num, batches, batch_i>>
    ELSE /\ EnterNextWave
         /\ UNCHANGED <<poll_idx, completed, failed, running>>

\* only the rate-limit error is handled, any other one leaves the function
CaughtRateLimitOnly(result) == result = "429"

\* "except Exception as e" (line 156)
Caught(result) == TRUE

\* one iteration of the submission loop up to the answer of the provider
\* (lines 123-134 with batch_processor.py:158-247 and 249-270): the batch
\* is prepared, uploaded and handed to batch_predict; a failure is caught
\* (lines 156-160) and the loop goes on
SubmitBatch ==
    /\ bPc = "submit"
    /\ \E answer \in SubmitOutcomes :
        LET batch  == batches[batch_i]
            size   == SliceLen(batch)
            prep   == prepare_batch_from_contents(size, max_batch_size)
            result == IF prep = "ok" THEN answer ELSE prep
        IN  /\ attempts' = Append(attempts,
                 [wave |-> wave_num, batch_num |-> batch_i, size |-> size,
                  result |-> result])
            /\ IF result = "ok"
               THEN /\ jobState' = Append(jobState, "JOB_STATE_PENDING")
                    /\ bPc' = "accepted"
                    /\ UNCHANGED <<wave_num, batches, batch_i, wave_job_ids,
                                   poll_idx, completed, failed, running>>
               ELSE IF Caught(result)
               THEN /\ AfterBatch(wave_job_ids)
                    /\ UNCHANGED jobState
               ELSE /\ bPc' = "raised"
                    /\ UNCHANGED <<jobState, wave_num, batches, batch_i,
                                   wave_job_ids, poll_idx, completed, failed,
                                   running>>
    /\ UNCHANGED <<nItems, wait_for_waves, poll_raised, max_batch_size, waves, all_job_ids,
                   job_tracking, job_metadata, dispatchVars, rtVars,
                   jobVars, fileVars, entityVars, serviceVars>>

\* submit_batch writes "{batch_name}_job.json" and returns the job id
\* (batch_processor.py:272-295)
SaveJobMetadata ==
    /\ bPc = "accepted"
    /\ job_metadata' = job_metadata \cup {Len(jobState)}
    /\ bPc' = "submitted"
    /\ UNCHANGED <<nItems, wait_for_waves, poll_raised, max_batch_size, waves, wave_num,
                   batches, batch_i, wave_job_ids, all_job_ids, job_tracking,
                   jobState, poll_idx, completed, failed, running, attempts,
                   dispatchVars, rtVars,
                   jobVars, fileVars, entityVars, serviceVars>>

\* the ledger is written with the job lists of one wave only
LedgerContentsOfWave(all_jobs, wave_jobs) == wave_jobs

\* "json.dump(all_job_ids, f, indent=2)" (lines 149-150)
LedgerContents(all_jobs, wave_jobs) == all_jobs

\* the job is tracked (lines 137-153): its job_info goes to wave_job_ids
\* and all_job_ids and job_tracking.json is rewritten
TrackJob ==
    /\ bPc = "submitted"
    /\ LET job_info == [wave |-> wave_num, batch_num |-> batch_i,
                        job_id |-> Len(jobState),
                        item_count |-> SliceLen(batches[batch_i])]
           wjobs == Append(wave_job_ids, job_info)
       IN  /\ all_job_ids' = Append(all_job_ids, job_info)
           /\ job_tracking' = LedgerContents(all_job_ids', wjobs)
           /\ AfterBatch(wjobs)
    /\ UNCHANGED <<nItems, wait_for_waves, poll_raised, max_batch_size, waves, jobState,
                   attempts, job_metadata, dispatchVars, rtVars,
                   jobVars, fileVars, entityVars, serviceVars>>

\* the process is killed: what is in memory is lost, the files and the
\* jobs at the provider stay
BatchCrash ==
    /\ bPc \in {"submit", "accepted", "submitted", "poll"}
    /\ bPc' = "crashed"
    /\ UNCHANGED <<nItems, wait_for_waves, poll_raised, max_batch_size, waves, wave_num,
                   batches, batch_i, wave_job_ids, all_job_ids, job_tracking,
                   jobState, poll_idx, completed, failed, running, attempts,
                   job_metadata, dispatchVars, rtVars,
                   jobVars, fileVars, entityVars, serviceVars>>

\* a cancelled job is not told from a job that is still going on
CountsAsFailedOnlyFailed(state) == state = "JOB_STATE_FAILED"

\* "elif state in ['JOB_STATE_FAILED', 'JOB_STATE_CANCELLED']" (line 180)
CountsAsFailed(state) ==
    state \in {"JOB_STATE_FAILED", "JOB_STATE_CANCELLED"}

\* one check_status call of the polling round (lines 175-187); an
\* exception of the call is swallowed and counts for nothing
PollJobWith(raised) ==
    /\ bPc = "poll"
    /\ poll_idx <= Len(wave_job_ids)
    /\ LET state == jobState[wave_job_ids[poll_idx].job_id]
       IN  /\ completed' = IF ~raised /\ state = "JOB_STATE_SUCCEEDED"
                           THEN completed + 1 ELSE completed
           /\ failed' = IF ~raised /\ state # "JOB_STATE_SUCCEEDED"
                               /\ CountsAsFailed(state)
                        THEN failed + 1 ELSE failed
           /\ running' = IF ~raised /\ state # "JOB_STATE_SUCCEEDED"
                                /\ ~CountsAsFailed(state)
                         THEN running + 1 ELSE running
    /\ poll_raised' = (poll_raised \/ raised)
    /\ poll_idx' = poll_idx + 1
    /\ UNCHANGED <<nItems, wait_for_waves, max_batch_size, waves, wave_num,
                   batches, batch_i, wave_job_ids, all_job_ids, job_tracking,
                   job_metadata, jobState, attempts, bPc, dispatchVars,
                   rtVars,
                   jobVars, fileVars, entityVars, serviceVars>>

PollJob == \E raised \in BOOLEAN : PollJobWith(raised)

\* the end of a polling round (lines 189-196): leave the wave or poll again
PollRoundEnd ==
    /\ bPc = "poll"
    /\ poll_idx > Len(wave_job_ids)
    /\ IF WaveComplete(completed, failed, running, Len(wave_job_ids))
       THEN /\ EnterNextWave
            /\ UNCHANGED <<poll_idx, completed, failed, running>>
       ELSE /\ poll_idx' = 1
            /\ completed' = 0
            /\ failed' = 0
            /\ running' = 0
            /\ UNCHANGED <<wave_num, batches, batch_i, wave_job_ids, bPc>>
    /\ UNCHANGED <<nItems, wait_for_waves, poll_raised, max_batch_size, waves, all_job_ids,
                   job_tracking, job_metadata, jobState, attempts,
                   dispatchVars, rtVars,
                   jobVars, fileVars, entityVars, serviceVars>>

\* the provider moves one of its jobs along
ProviderStep ==
    /\ \E j \in 1..Len(jobState) :
        \E s \in ProviderNext(jobState[j]) :
            jobState' = [jobState EXCEPT ![j] = s]
    /\ UNCHANGED <<nItems, wait_for_waves, poll_raised, max_batch_size, waves, wave_num,
                   batches, batch_i, wave_job_ids, all_job_ids, job_tracking,
                   job_metadata, poll_idx, completed, failed, running,
                   attempts, bPc, dispatchVars, rtVars,
                   jobVars, fileVars, entityVars, serviceVars>>

NextWave ==
    \/ BuildWaves
    \/ SubmitBatch
    \/ SaveJobMetadata
    \/ TrackJob
    \/ BatchCrash
    \/ PollJob
    \/ PollRoundEnd
    \/ ProviderStep

(***************************************************************************)
(* Dispatcher (news_analyzer.py).                                          *)
(***************************************************************************)
\* number of concurrent llm_analyzer callers
NumCallers == 3
\* largest max_concurrent a NewsAnalyzer is constructed with
MaxConcurrent == 2
\* last tick of the clock while no caller is asleep
MaxTime == 4

\* 0.05 s, in ticks
MIN_REQUEST_INTERVAL == 2

Callers == 1..NumCallers

\* how a call of agent.run under asyncio.wait_for may end
CallOutcomes == {"ok", "timeout", "error"}

\* positions at which a caller is inside "async with semaphore"
HoldingPcs == {"ratelock", "sleeping", "inflight"}

\* a semaphore is created by whoever gets the lock, without a second look
NeedsCreateUnchecked(sem) == TRUE

\* the inner "if self._llm_semaphore is None" of _get_semaphore
NeedsCreate(sem) == sem = 0

\* the residual interval is not slept
WaitTimeNone(time_since_last) == 0

\* wait_time = MIN_REQUEST_INTERVAL - time_since_last
WaitTime(time_since_last) == MIN_REQUEST_INTERVAL - time_since_last

\* a timeout is raised like any other failure of the call
CallerGetsUndistinguished(outcome) ==
    IF outcome = "ok" THEN "result" ELSE "error"

\* lines 319-338: the result, the TimeoutError made for asyncio.TimeoutError
\* (lines 324-328), or the exception of agent.run raised again (line 331)
CallerGets(outcome) ==
    IF outcome = "ok" THEN "result"
    ELSE IF outcome = "timeout" THEN "TimeoutError"
    ELSE outcome

\* the caller that slept keeps the lock during its inference call
RateLimitLockKept(holder) == holder

\* the end of "async with self._rate_limit_lock" (line 317): the lock is
\* free before asyncio.wait_for is entered
RateLimitLockExit(holder) == 0

\* the slot is given back on the success path only
SemaphoreExitOnSuccess(value, outcome) == IF outcome = "ok" THEN value + 1 ELSE value

\* __aexit__ of "async with semaphore": release() whatever the outcome
SemaphoreExit(value, outcome) == value + 1

InitDispatch ==
    /\ max_concurrent \in 1..MaxConcurrent
    /\ llm_semaphore = 0
    /\ sems = <<>>
    /\ semaphore_lock = 0
    /\ rate_limit_lock = 0
    /\ last_request_time = 0
    /\ now = MIN_REQUEST_INTERVAL
    /\ dPc = [c \in Callers |-> "idle"]
    /\ mySem = [c \in Callers |-> 0]
    /\ wake = [c \in Callers |-> 0]
    /\ callOutcome = [c \in Callers |-> "none"]
    /\ caller_gets = [c \in Callers |-> "none"]
    /\ dispatches = <<>>

\* the components that do not run under a specification stay as constructed
DispatchIdle ==
    /\ max_concurrent = 1
    /\ llm_semaphore = 0
    /\ sems = <<>>
    /\ semaphore_lock = 0
    /\ rate_limit_lock = 0
    /\ last_request_time = 0
    /\ now = MIN_REQUEST_INTERVAL
    /\ dPc = [c \in Callers |-> "idle"]
    /\ mySem = [c \in Callers |-> 0]
    /\ wake = [c \in Callers |-> 0]
    /\ callOutcome = [c \in Callers |-> "none"]
    /\ caller_gets = [c \in Callers |-> "none"]
    /\ dispatches = <<>>

WaveIdle ==
    /\ nItems = 0
    /\ wait_for_waves = TRUE
    /\ max_batch_size = BATCH_LIMIT
    /\ waves = <<>>
    /\ wave_num = 0
    /\ batches = <<>>
    /\ batch_i = 0
    /\ wave_job_ids = <<>>
    /\ all_job_ids = <<>>
    /\ job_tracking = <<>>
    /\ job_metadata = {}
    /\ jobState = <<>>
    /\ poll_idx = 0
    /\ completed = 0
    /\ failed = 0
    /\ running = 0
    /\ attempts = <<>>
    /\ poll_raised = FALSE
    /\ bPc = "start"

\* llm_analyzer is entered (lines 297-304): empty contents are refused;
\* otherwise _get_semaphore makes its outer check (line 211) and either
\* returns the semaphore or goes for the lock.  The callers are numbered
\* in the order in which they enter.
CallLlmAnalyzer(c) ==
    /\ dPc[c] = "idle"
    /\ \A d \in Callers : d < c => dPc[d] # "idle"
    /\ \E empty \in BOOLEAN :
        IF empty
        THEN /\ dPc' = [dPc EXCEPT ![c] = "raised"]
             /\ callOutcome' = [callOutcome EXCEPT ![c] = "ValueError"]
             /\ caller_gets' = [caller_gets EXCEPT ![c] = "ValueError"]
             /\ UNCHANGED mySem
        ELSE IF llm_semaphore # 0
        THEN /\ mySem' = [mySem EXCEPT ![c] = llm_semaphore]
             /\ dPc' = [dPc EXCEPT ![c] = "acquire"]
             /\ UNCHANGED <<callOutcome, caller_gets>>
        ELSE /\ dPc' = [dPc EXCEPT ![c] = "semlock"]
             /\ UNCHANGED <<mySem, callOutcome, caller_gets>>
    /\ UNCHANGED <<max_concurrent, llm_semaphore, sems, semaphore_lock,
                   rate_limit_lock, last_request_time, now, wake,
                   dispatches, waveVars, rtVars,
                   jobVars, fileVars, entityVars, serviceVars>>

\* _get_semaphore, "async with self._semaphore_lock" is entered (line 212)
SemaphoreLockAcquire(c) ==
    /\ dPc[c] = "semlock"
    /\ semaphore_lock = 0
    /\ semaphore_lock' = c
    /\ dPc' = [dPc EXCEPT ![c] = "semlocked"]
    /\ UNCHANGED <<max_concurrent, llm_semaphore, sems, rate_limit_lock,
                   last_request_time, now, mySem, wake, callOutcome, caller_gets,
                   dispatches, waveVars, rtVars,
                   jobVars, fileVars, entityVars, serviceVars>>

\* _get_semaphore, the body under the lock and the return (lines 213-215)
SemaphoreCreate(c) ==
    /\ dPc[c] = "semlocked"
    /\ IF NeedsCreate(llm_semaphore)
       THEN /\ sems' = Append(sems, max_concurrent)
            /\ llm_semaphore' = Len(sems) + 1
       ELSE UNCHANGED <<sems, llm_semaphore>>
    /\ mySem' = [mySem EXCEPT ![c] = llm_semaphore']
    /\ semaphore_lock' = 0
    /\ dPc' = [dPc EXCEPT ![c] = "acquire"]
    /\ UNCHANGED <<max_concurrent, rate_limit_lock, last_request_time, now,
                   wake, callOutcome, caller_gets, dispatches, waveVars, rtVars,
                   jobVars, fileVars, entityVars, serviceVars>>

\* "async with semaphore" is entered (line 306)
SemaphoreAcquire(c) ==
    /\ dPc[c] = "acquire"
    /\ sems[mySem[c]] > 0
    /\ sems' = [sems EXCEPT ![mySem[c]] = @ - 1]
    /\ dPc' = [dPc EXCEPT ![c] = "ratelock"]
    /\ UNCHANGED <<max_concurrent, llm_semaphore, semaphore_lock,
                   rate_limit_lock, last_request_time, now, mySem, wake,
                   callOutcome, caller_gets, dispatches, waveVars, rtVars,
                   jobVars, fileVars, entityVars, serviceVars>>

\* the rate limiter (lines 308-317) up to its first suspension: the lock
\* is taken, the clock is read, and the caller either goes to sleep with
\* the lock held or stamps the request and leaves the lock
RateLimit(c) ==
    /\ dPc[c] = "ratelock"
    /\ rate_limit_lock = 0
    /\ LET current_time == now
           time_since_last == current_time - last_request_time
       IN  IF time_since_last < MIN_REQUEST_INTERVAL
           THEN /\ rate_limit_lock' = c
                /\ wake' = [wake EXCEPT ![c] = current_time + WaitTime(time_since_last)]
                /\ dPc' = [dPc EXCEPT ![c] = "sleeping"]
                /\ UNCHANGED <<last_request_time, dispatches>>
           ELSE /\ last_request_time' = now
                /\ dispatches' = Append(dispatches, now)
                /\ dPc' = [dPc EXCEPT ![c] = "inflight"]
                /\ UNCHANGED <<rate_limit_lock, wake>>
    /\ UNCHANGED <<max_concurrent, llm_semaphore, sems, semaphore_lock, now,
                   mySem, callOutcome, caller_gets, waveVars, rtVars,
                   jobVars, fileVars, entityVars, serviceVars>>

\* asyncio.sleep(wait_time) is over (lines 315-317): the request is
\* stamped, the lock is left and the inference call starts
WakeUp(c) ==
    /\ dPc[c] = "sleeping"
    /\ now >= wake[c]
    /\ last_request_time' = now
    /\ dispatches' = Append(dispatches, now)
    /\ rate_limit_lock' = RateLimitLockExit(c)
    /\ dPc' = [dPc EXCEPT ![c] = "inflight"]
    /\ UNCHANGED <<max_concurrent, llm_semaphore, sems, semaphore_lock, now,
                   mySem, wake, callOutcome, caller_gets, waveVars, rtVars,
                   jobVars, fileVars, entityVars, serviceVars>>

\* the inference call ends (lines 319-331) and the semaphore is left
FinishCall(c) ==
    /\ dPc[c] = "inflight"
    /\ \E outcome \in CallOutcomes :
        /\ sems' = [sems EXCEPT ![mySem[c]] = SemaphoreExit(@, outcome)]
        /\ callOutcome' = [callOutcome EXCEPT ![c] = outcome]
        /\ caller_gets' = [caller_gets EXCEPT ![c] = CallerGets(outcome)]
        /\ dPc' = [dPc EXCEPT ![c] = IF outcome = "ok" THEN "returned" ELSE "raised"]
    /\ wake' = [wake EXCEPT ![c] = 0]
    /\ UNCHANGED <<max_concurrent, llm_semaphore, semaphore_lock,
                   rate_limit_lock, last_request_time, now, mySem,
                   dispatches, waveVars, rtVars,
                   jobVars, fileVars, entityVars, serviceVars>>

\* the clock advances; it is followed up to MaxTime and for as long as a
\* caller is asleep
Tick ==
    /\ \/ now < MaxTime
       \/ \E c \in Callers : dPc[c] = "sleeping" /\ now < wake[c]
    /\ now' = now + 1
    /\ UNCHANGED <<max_concurrent, llm_semaphore, sems, semaphore_lock,
                   rate_limit_lock, last_request_time, dPc, mySem, wake,
                   callOutcome, caller_gets, dispatches, waveVars, rtVars,
                   jobVars, fileVars, entityVars, serviceVars>>

NextDispatch ==
    \/ \E c \in Callers : CallLlmAnalyzer(c)
    \/ \E c \in Callers : SemaphoreLockAcquire(c)
    \/ \E c \in Callers : SemaphoreCreate(c)
    \/ \E c \in Callers : SemaphoreAcquire(c)
    \/ \E c \in Callers : RateLimit(c)
    \/ \E c \in Callers : WakeUp(c)
    \/ \E c \in Callers : FinishCall(c)
    \/ Tick

(***************************************************************************)
(* Real-time processor (process_with_realtime_api).                        *)
(***************************************************************************)
\* largest item list
MaxItems == 10
\* largest items_per_day
MaxQuota == 2
\* number of successive invocations over the same checkpoint file
MaxInvocations == 3

\* "if len(results) % 10 == 0"
CHECKPOINT_EVERY == 10

\* parameters of NewsAnalyzer.analyze_with_contents besides self; none
\* has a default
AnalyzeWithContentsParams == {"request"}

\* keywords of the call "analyzer.analyze_with_contents(text=content, title=title)"
RealtimeCallKeywords == {"text", "title"}

\* Python's binding of a call made with keywords only: every keyword needs
\* a parameter of that name and every parameter without default a keyword
Binds(keywords, params) == keywords = params

\* what the dispatcher may give for a call that reaches it
RealtimeAnswers == {"ok", "ValueError", "timeout", "error"}

\* outcome of the call at line 315: a TypeError of the binding, else the
\* dispatcher's answer
AnalyzeCall(keywords, answer) ==
    IF Binds(keywords, AnalyzeWithContentsParams) THEN answer ELSE "TypeError"

\* the entries of failed calls do not count as processed
ProcessedIdsWithoutErrors(res) ==
    {res[k].original_id : k \in {m \in 1..Len(res) : ~res[m].error}}

\* the checkpoint is read under a key its entries do not carry
ProcessedIdsWrongKey(res) == IF res = <<>> THEN {} ELSE {0}

\* {r.get('original_id', r.get('page_title')) for r in results}
ProcessedIds(res) == {res[k].original_id : k \in 1..Len(res)}

\* the filter loses the first item of the list
ItemsToProcessSkipFirst(n, pids) ==
    SelectSeq([k \in 1..(n - 1) |-> k + 1], LAMBDA id : id \notin pids)

\* [item for item in items if item.get('id') not in processed_ids]
ItemsToProcess(n, pids) ==
    SelectSeq([k \in 1..n |-> k], LAMBDA id : id \notin pids)

\* the placeholder forgets which item it stands for
ErrorPlaceholderAnonymous(item_id) == [original_id |-> 0, error |-> TRUE]

\* {'original_id': item_id, 'error': str(e)}
ErrorPlaceholder(item_id) == [original_id |-> item_id, error |-> TRUE]

\* result.model_dump() with result_dict['original_id'] = item_id
ResultEntry(item_id) == [original_id |-> item_id, error |-> FALSE]

\* the error path leaves the file as it is
CheckpointOnErrorSkipped(res, old) == old

\* "Save on error": json.dump(results, f) into the rewritten file
CheckpointOnError(res, old) == res

\* "if today_count >= items_per_day"
QuotaReached(count, quota) == count >= quota

InitRealtime ==
    /\ rtItems \in 0..MaxItems
    /\ items_per_day \in 0..MaxQuota
    /\ fileExists = FALSE
    /\ file = <<>>
    /\ results = <<>>
    /\ processed_ids = {}
    /\ items_to_process = <<>>
    /\ rtI = 0
    /\ today_count = 0
    /\ rtPc = "idle"
    /\ invocations = 0
    /\ processedBefore = {}
    /\ sessionAttempts = <<>>
    /\ inferenceCalls = <<>>

RealtimeIdle ==
    /\ rtItems = 0
    /\ items_per_day = 0
    /\ fileExists = FALSE
    /\ file = <<>>
    /\ results = <<>>
    /\ processed_ids = {}
    /\ items_to_process = <<>>
    /\ rtI = 0
    /\ today_count = 0
    /\ rtPc = "idle"
    /\ invocations = 0
    /\ processedBefore = {}
    /\ sessionAttempts = <<>>
    /\ inferenceCalls = <<>>

\* an invocation starts (lines 266-296): the checkpoint is loaded and the
\* items already in it are filtered out
RtStart ==
    /\ rtPc \in {"idle", "returned", "raised", "crashed"}
    /\ invocations < MaxInvocations
    /\ LET loaded == IF fileExists THEN file ELSE <<>>
           pids   == IF fileExists THEN ProcessedIds(loaded) ELSE {}
           todo   == ItemsToProcess(rtItems, pids)
       IN  /\ results' = loaded
           /\ processed_ids' = pids
           /\ items_to_process' = todo
           /\ processedBefore' = IF fileExists
                                 THEN {file[k].original_id : k \in 1..Len(file)}
                                 ELSE {}
           /\ rtPc' = IF todo = <<>> THEN "returned" ELSE "loop"
    /\ rtI' = 1
    /\ today_count' = 0
    /\ invocations' = invocations + 1
    /\ sessionAttempts' = <<>>
    /\ inferenceCalls' = <<>>
    /\ UNCHANGED <<rtItems, items_per_day, fileExists, file, waveVars,
                   dispatchVars,
                   jobVars, fileVars, entityVars, serviceVars>>

\* one iteration of the loop (lines 298-339), up to the save of the error
\* path: the quota check, the call, and the entry appended for its outcome
RtIterate ==
    /\ rtPc = "loop"
    /\ rtI <= Len(items_to_process)
    /\ IF QuotaReached(today_count, items_per_day)
       THEN /\ rtPc' = "final"
            /\ UNCHANGED <<results, today_count, rtI, file, fileExists,
                           sessionAttempts,
                           inferenceCalls>>
       ELSE \E answer \in RealtimeAnswers :
            LET item_id == items_to_process[rtI]
                outcome == AnalyzeCall(RealtimeCallKeywords, answer)
            IN  /\ sessionAttempts' = Append(sessionAttempts, item_id)
                /\ inferenceCalls' =
                      IF Binds(RealtimeCallKeywords, AnalyzeWithContentsParams)
                      THEN Append(inferenceCalls,
                                  [item |-> item_id, answer |-> answer])
                      ELSE inferenceCalls
                /\ IF outcome = "ok"
                   THEN /\ results' = Append(results, ResultEntry(item_id))
                        /\ today_count' = today_count + 1
                        /\ IF Len(results') % CHECKPOINT_EVERY = 0
                           THEN file' = results' /\ fileExists' = TRUE
                           ELSE UNCHANGED <<file, fileExists>>
                        /\ rtI' = rtI + 1
                        /\ rtPc' = "loop"
                   ELSE /\ results' = Append(results, ErrorPlaceholder(item_id))
                        /\ rtPc' = "errsave"
                        /\ UNCHANGED <<today_count, rtI, file, fileExists>>
    /\ UNCHANGED <<rtItems, items_per_day, processed_ids, items_to_process,
                   invocations, processedBefore, waveVars, dispatchVars,
                   jobVars, fileVars, entityVars, serviceVars>>

\* "Save on error" (lines 341-343) and the step to the next item
RtSaveOnError ==
    /\ rtPc = "errsave"
    /\ file' = CheckpointOnError(results, file)
    /\ fileExists' = TRUE
    /\ rtI' = rtI + 1
    /\ rtPc' = "loop"
    /\ UNCHANGED <<rtItems, items_per_day, results, processed_ids,
                   items_to_process, today_count, invocations,
                   processedBefore, sessionAttempts, inferenceCalls,
                   waveVars, dispatchVars,
                   jobVars, fileVars, entityVars, serviceVars>>

\* the loop has run through items_to_process
RtLoopEnd ==
    /\ rtPc = "loop"
    /\ rtI > Len(items_to_process)
    /\ rtPc' = "final"
    /\ UNCHANGED <<rtItems, items_per_day, fileExists, file, results,
                   processed_ids, items_to_process, rtI, today_count,
                   invocations, processedBefore, sessionAttempts,
                   inferenceCalls, waveVars, dispatchVars,
                   jobVars, fileVars, entityVars, serviceVars>>

\* "Final save" (lines 345-347)
RtFinalSave ==
    /\ rtPc = "final"
    /\ file' = results
    /\ fileExists' = TRUE
    /\ rtPc' = "stats"
    /\ UNCHANGED <<rtItems, items_per_day, results, processed_ids,
                   items_to_process, rtI, today_count, invocations,
                   processedBefore, sessionAttempts, inferenceCalls,
                   waveVars, dispatchVars,
                   jobVars, fileVars, entityVars, serviceVars>>

\* the session statistics (lines 349-366): "elapsed/today_count" raises
\* ZeroDivisionError when no call of the session succeeded
RtStats ==
    /\ rtPc = "stats"
    /\ rtPc' = IF today_count = 0 THEN "raised" ELSE "returned"
    /\ UNCHANGED <<rtItems, items_per_day, fileExists, file, results,
                   processed_ids, items_to_process, rtI, today_count,
                   invocations, processedBefore, sessionAttempts,
                   inferenceCalls, waveVars, dispatchVars,
                   jobVars, fileVars, entityVars, serviceVars>>

\* the process is killed: what is in memory is lost, the file stays
RtCrash ==
    /\ rtPc \in {"loop", "errsave", "final", "stats"}
    /\ rtPc' = "crashed"
    /\ UNCHANGED <<rtItems, items_per_day, fileExists, file, results,
                   processed_ids, items_to_process, rtI, today_count,
                   invocations, processedBefore, sessionAttempts,
                   inferenceCalls, waveVars, dispatchVars,
                   jobVars, fileVars, entityVars, serviceVars>>

NextRealtime ==
    \/ RtStart
    \/ RtIterate
    \/ RtSaveOnError
    \/ RtLoopEnd
    \/ RtFinalSave
    \/ RtStats
    \/ RtCrash

(***************************************************************************)
(* Tracking of one submitted job (BatchProcessor.wait_for_completion and   *)
(* BatchProcessor.retrieve_results).  Time is counted in units of which    *)
(* poll_interval and max_wait_time are multiples.                          *)
(***************************************************************************)
\* largest poll_interval
MaxPollInterval == 2
\* largest max_wait_time
MaxWaitTime == 4

\* any finished job is taken for a success
WaitVerdictAnyTerminal(state) ==
    IF state \in TerminalStates THEN "true" ELSE "continue"

\* lines 341-349: what wait_for_completion does with the state of a poll
WaitVerdict(state) ==
    IF state = "JOB_STATE_SUCCEEDED" THEN "true"
    ELSE IF state \in {"JOB_STATE_FAILED", "JOB_STATE_CANCELLED"} THEN "false"
    ELSE "continue"

\* any finished job is taken for a job with results
RetrieveReadyAnyTerminal(state) == state \in TerminalStates

\* line 380: 'batch_job.state != "JOB_STATE_SUCCEEDED"' negated
RetrieveReady(state) == state = "JOB_STATE_SUCCEEDED"

\* giving up sends a cancel request for a job that has not finished
StateAfterGiveUpCancelled(state) ==
    IF state \in TerminalStates THEN state ELSE "JOB_STATE_CANCELLED"

\* lines 355-358: giving up is a warning and "return False"; no request
\* goes to the provider
StateAfterGiveUp(state) == state

\* the loop goes on while the waiting time is not exceeded
StillWaitingInclusive(waited, wait_time) == waited <= wait_time

\* line 339: "while time.time() - start_time < max_wait_time"
StillWaiting(waited, wait_time) == waited < wait_time

\* whether "genai.BatchJob(name=job_id)" (line 307) may raise: it does for
\* a job the provider does not show, and any call may fail
CheckStatusRaises == IF job_visible THEN BOOLEAN ELSE {TRUE}

\* the job as submit_batch left it (lines 270-295): the provider has
\* accepted it, may not show it yet, and the metadata file holds the state
\* batch_predict returned
InitJob ==
    /\ batch_job_state = "JOB_STATE_PENDING"
    /\ job_visible \in BOOLEAN
    /\ metadata_status = "JOB_STATE_PENDING"
    /\ csResult = "none"
    /\ poll_interval = 1
    /\ max_wait_time = 0
    /\ elapsed = 0
    /\ status = "none"
    /\ polls = 0
    /\ wPc = "idle"
    /\ wReturn = "none"
    /\ rPc = "idle"
    /\ rState = "none"
    /\ rError = "none"
    /\ downloaded = FALSE

JobIdle ==
    /\ batch_job_state = "JOB_STATE_PENDING"
    /\ job_visible = TRUE
    /\ metadata_status = "JOB_STATE_PENDING"
    /\ csResult = "none"
    /\ poll_interval = 1
    /\ max_wait_time = 0
    /\ elapsed = 0
    /\ status = "none"
    /\ polls = 0
    /\ wPc = "idle"
    /\ wReturn = "none"
    /\ rPc = "idle"
    /\ rState = "none"
    /\ rError = "none"
    /\ downloaded = FALSE

\* the provider moves the job on
BatchJobStep ==
    /\ \E s \in ProviderNext(batch_job_state) : batch_job_state' = s
    /\ UNCHANGED <<job_visible, metadata_status, csResult, poll_interval,
                   max_wait_time, elapsed, status, polls, wPc, wReturn, rPc,
                   rState, rError, downloaded, waveVars, dispatchVars, rtVars,
                   fileVars, entityVars, serviceVars>>

\* the provider begins to show the job
JobBecomesVisible ==
    /\ ~job_visible
    /\ job_visible' = TRUE
    /\ UNCHANGED <<batch_job_state, metadata_status, csResult, poll_interval,
                   max_wait_time, elapsed, status, polls, wPc, wReturn, rPc,
                   rState, rError, downloaded, waveVars, dispatchVars, rtVars,
                   fileVars, entityVars, serviceVars>>

\* check_status is called (lines 297-316)
CheckStatus ==
    /\ \E raised \in CheckStatusRaises :
          csResult' = IF raised THEN "raised" ELSE batch_job_state
    /\ UNCHANGED <<batch_job_state, job_visible, metadata_status,
                   poll_interval, max_wait_time, elapsed, status, polls, wPc,
                   wReturn, rPc, rState, rError, downloaded, waveVars, dispatchVars, rtVars,
                   fileVars, entityVars, serviceVars>>

\* wait_for_completion is entered (lines 318-337): start_time = time.time()
WaitForCompletionEntered(interval, wait_time) ==
    /\ wPc \in {"idle", "returned", "raised"}
    /\ poll_interval' = interval
    /\ max_wait_time' = wait_time
    /\ elapsed' = 0
    /\ status' = "none"
    /\ polls' = 0
    /\ wPc' = "polling"
    /\ wReturn' = "none"

\* wait_for_completion is called by a caller of its own
WaitForCompletion(interval, wait_time) ==
    /\ WaitForCompletionEntered(interval, wait_time)
    /\ UNCHANGED <<batch_job_state, job_visible, metadata_status, csResult,
                   rPc, rState, rError, downloaded, waveVars, dispatchVars, rtVars,
                   fileVars, entityVars, serviceVars>>

\* one test of the loop condition and, if it holds, one iteration (lines
\* 339-353): check_status, which may raise, the verdict on its state, and
\* time.sleep(poll_interval); if it does not hold, lines 355-358
WaitPoll ==
    /\ wPc = "polling"
    /\ IF StillWaiting(elapsed, max_wait_time)
       THEN /\ \E raised \in CheckStatusRaises :
                IF raised
                THEN /\ wPc' = "raised"
                     /\ UNCHANGED <<status, polls, elapsed, wReturn>>
                ELSE /\ status' = batch_job_state
                     /\ polls' = polls + 1
                     /\ IF WaitVerdict(batch_job_state) = "continue"
                        THEN /\ elapsed' = elapsed + poll_interval
                             /\ UNCHANGED <<wPc, wReturn>>
                        ELSE /\ wReturn' = WaitVerdict(batch_job_state)
                             /\ wPc' = "returned"
                             /\ UNCHANGED elapsed
            /\ UNCHANGED batch_job_state
       ELSE /\ wReturn' = "false"
            /\ wPc' = "returned"
            /\ batch_job_state' = StateAfterGiveUp(batch_job_state)
            /\ UNCHANGED <<status, polls, elapsed>>
    /\ UNCHANGED <<job_visible, metadata_status, csResult, poll_interval,
                   max_wait_time, rPc, rState, rError, downloaded, waveVars, dispatchVars, rtVars,
                   fileVars, entityVars, serviceVars>>

\* retrieve_results is called (lines 377-381): the job is fetched, which
\* raises for a job the provider does not show, and its state is tested
RetrieveResultsEntered ==
    /\ rPc \in {"idle", "returned", "raised"}
    /\ downloaded' = FALSE
    /\ IF ~job_visible
       THEN rPc' = "raised" /\ rError' = "lookup" /\ rState' = "none"
       ELSE /\ rState' = batch_job_state
            /\ IF RetrieveReady(batch_job_state)
               THEN rPc' = "download" /\ rError' = "none"
               ELSE rPc' = "raised" /\ rError' = batch_job_state

\* retrieve_results is called by a caller of its own
RetrieveResults ==
    /\ RetrieveResultsEntered
    /\ UNCHANGED <<batch_job_state, job_visible, metadata_status, csResult,
                   poll_interval, max_wait_time, elapsed, status, polls, wPc,
                   wReturn, waveVars, dispatchVars, rtVars,
                   fileVars, entityVars, serviceVars>>

\* the output file is downloaded and read (lines 383-430)
RetrieveDownload ==
    /\ rPc = "download"
    /\ downloaded' = TRUE
    /\ rPc' = "returned"
    /\ UNCHANGED <<batch_job_state, job_visible, metadata_status, csResult,
                   poll_interval, max_wait_time, elapsed, status, polls, wPc,
                   wReturn, rState, rError, waveVars, dispatchVars, rtVars,
                   fileVars, entityVars, serviceVars>>

NextJob ==
    \/ BatchJobStep
    \/ JobBecomesVisible
    \/ CheckStatus
    \/ \E interval \in 1..MaxPollInterval, wait_time \in 0..MaxWaitTime :
          WaitForCompletion(interval, wait_time)
    \/ WaitPoll
    \/ RetrieveResults
    \/ RetrieveDownload

(***************************************************************************)
(* One batch file: prepare_batch_from_contents writes the requests and the *)
(* id mapping, the provider writes the output of the succeeded job, and    *)
(* retrieve_results reads it line by line (batch_processor.py).            *)
(***************************************************************************)
\* largest number of items in contents
MaxBatchItems == 3
\* largest number of lines in the output file
MaxOutputLines == 2

\* the id of the item at position p (the ids of a run are unique)
ItemId(p) == 100 + p

\* the page_title the model gives in its answer to request idx
AnswerTitle(idx) == 200 + idx

BatchContents ==
    UNION {[1..n -> [id : {0}, has_content : BOOLEAN]] : n \in 0..MaxBatchItems}

\* "if not content: continue" (lines 192-194) for enumerate index idx
HasRequest(c, idx) == c[idx + 1].has_content

\* batch_requests after the loop (lines 187-229): the custom_ids in the
\* order of contents
BatchRequests(c) ==
    SelectSeq([k \in 1..Len(c) |-> k - 1], LAMBDA idx : HasRequest(c, idx))

\* the mapping gets its entry before the empty content is skipped
IdMappingBeforeSkip(c) == [idx \in 0..(Len(c) - 1) |-> c[idx + 1].id]

\* id_mapping after the loop: "id_mapping[custom_id] = item_id" (line 197)
IdMapping(c) ==
    [idx \in {i \in 0..(Len(c) - 1) : HasRequest(c, i)} |-> c[idx + 1].id]

\* json.loads(line) fails / the line has a "response" / it has none
LineKinds == {"malformed", "response", "no_response"}

OutputLine == [custom_id : 0..MaxBatchItems, kind : LineKinds]

\* the provider answers in any order, with ids of its own choice
ProviderOutputs ==
    {out \in UNION {[1..n -> OutputLine] : n \in 0..MaxOutputLines} :
        \A k, m \in DOMAIN out : out[k].custom_id = out[m].custom_id => k = m}

\* ClassificationResultFromText(page_title=parsed.get("page_title"), ...)
\* (lines 409-423)
ResultOfLine(line) == [page_title |-> AnswerTitle(line.custom_id)]

InitFile ==
    /\ \E c \in BatchContents :
          contents = [p \in DOMAIN c |-> [c[p] EXCEPT !.id = ItemId(p)]]
    /\ batch_requests = <<>>
    /\ id_mapping = <<>>
    /\ output_lines = <<>>
    /\ line_i = 0
    /\ batch_results = <<>>
    /\ warnings = <<>>
    /\ fPc = "start"

FileIdle ==
    /\ contents = <<>>
    /\ batch_requests = <<>>
    /\ id_mapping = <<>>
    /\ output_lines = <<>>
    /\ line_i = 0
    /\ batch_results = <<>>
    /\ warnings = <<>>
    /\ fPc = "start"

\* prepare_batch_from_contents (lines 158-247)
PrepareBatchFromContents ==
    /\ fPc = "start"
    /\ IF prepare_batch_from_contents(Len(contents), BATCH_LIMIT) = "ok"
       THEN /\ batch_requests' = BatchRequests(contents)
            /\ id_mapping' = IdMapping(contents)
            /\ fPc' = "prepared"
       ELSE /\ fPc' = "raised"
            /\ UNCHANGED <<batch_requests, id_mapping>>
    /\ UNCHANGED <<contents, output_lines, line_i, batch_results, warnings,
                   waveVars, dispatchVars, rtVars, jobVars, entityVars, serviceVars>>

\* the job has succeeded; retrieve_results downloads its output and opens
\* it (lines 383-403)
DownloadOutput ==
    /\ fPc = "prepared"
    /\ \E out \in ProviderOutputs : output_lines' = out
    /\ line_i' = 1
    /\ batch_results' = <<>>
    /\ fPc' = "parse"
    /\ UNCHANGED <<contents, batch_requests, id_mapping, warnings, waveVars,
                   dispatchVars, rtVars, jobVars, entityVars, serviceVars>>

\* one iteration of "for line in f" (lines 404-427): json.loads stands in
\* no try block, so its error leaves retrieve_results
ParseLine ==
    /\ fPc = "parse"
    /\ line_i <= Len(output_lines)
    /\ LET line == output_lines[line_i]
       IN  IF line.kind = "malformed"
           THEN /\ fPc' = "raised"
                /\ UNCHANGED <<line_i, batch_results, warnings>>
           ELSE IF line.kind = "response"
           THEN /\ batch_results' = Append(batch_results, ResultOfLine(line))
                /\ line_i' = line_i + 1
                /\ UNCHANGED <<fPc, warnings>>
           ELSE /\ warnings' = Append(warnings, line.custom_id)
                /\ line_i' = line_i + 1
                /\ UNCHANGED <<fPc, batch_results>>
    /\ UNCHANGED <<contents, batch_requests, id_mapping, output_lines,
                   waveVars, dispatchVars, rtVars, jobVars, entityVars, serviceVars>>

\* "return results" (lines 429-430)
RetrieveReturn ==
    /\ fPc = "parse"
    /\ line_i > Len(output_lines)
    /\ fPc' = "returned"
    /\ UNCHANGED <<contents, batch_requests, id_mapping, output_lines, line_i,
                   batch_results, warnings, waveVars, dispatchVars, rtVars,
                   jobVars, entityVars, serviceVars>>

NextFile ==
    \/ PrepareBatchFromContents
    \/ DownloadOutput
    \/ ParseLine
    \/ RetrieveReturn

(***************************************************************************)
(* The entity batch run: process_article_batch and main                    *)
(* (batch_processing/entity_batch.py).                                     *)
(***************************************************************************)
MaxArticles == 4

\* len(articles) as the query may answer it
FetchSizes == 0..MaxArticles

\* main exits with 1 only when process_article_batch raised
ExitCodeFatalOnly(n_failed, raised) ==
    IF raised THEN 1 ELSE 0

\* lines 179-190: the argument of sys.exit
ExitCode(n_failed, raised) ==
    IF raised THEN 1
    ELSE IF n_failed > 0 THEN 1 ELSE 0

InitEntity ==
    /\ env_ok \in BOOLEAN
    /\ articles = 0
    /\ article_idx = 0
    /\ articles_processed = 0
    /\ articles_failed = 0
    /\ marked = {}
    /\ exit_code = -1
    /\ attempted = 0
    /\ fatal = FALSE
    /\ ePc = "start"

\* lines 56-61: the required environment variables
ValidateEnvironment ==
    /\ ePc = "start"
    /\ IF env_ok
          THEN /\ ePc' = "fetch"
               /\ UNCHANGED fatal
          ELSE /\ ePc' = "raised"
               /\ fatal' = TRUE
    /\ UNCHANGED <<env_ok, articles, article_idx, articles_processed,
                   articles_failed, marked, exit_code, attempted,
                   waveVars, dispatchVars, rtVars, jobVars, fileVars, serviceVars>>

\* lines 64-89: the client, the query, the empty answer and the statistics
FetchArticles ==
    /\ ePc = "fetch"
    /\ \E raises \in BOOLEAN, fetched \in FetchSizes :
        IF raises
           THEN /\ ePc' = "raised"
                /\ fatal' = TRUE
                /\ UNCHANGED articles
           ELSE /\ articles' = fetched
                /\ ePc' = IF fetched = 0 THEN "returned" ELSE "loop"
                /\ UNCHANGED fatal
    /\ UNCHANGED <<env_ok, article_idx, articles_processed, articles_failed,
                   marked, exit_code, attempted,
                   waveVars, dispatchVars, rtVars, jobVars, fileVars, serviceVars>>

\* lines 92-94: the next article of the loop
NextArticle ==
    /\ ePc = "loop"
    /\ article_idx < articles
    /\ article_idx' = article_idx + 1
    /\ attempted' = attempted + 1
    /\ ePc' = "extract"
    /\ UNCHANGED <<env_ok, articles, articles_processed, articles_failed,
                   marked, exit_code, fatal,
                   waveVars, dispatchVars, rtVars, jobVars, fileVars, serviceVars>>

\* lines 137-140: except Exception counts the failure and continues
ArticleFailed ==
    /\ articles_failed' = articles_failed + 1
    /\ ePc' = "loop"
    /\ UNCHANGED <<articles_processed, marked>>

\* lines 96-109: extract_entities
ExtractEntities ==
    /\ ePc = "extract"
    /\ \E ok \in BOOLEAN :
        IF ok
           THEN /\ ePc' = "store"
                /\ UNCHANGED <<articles_processed, articles_failed, marked>>
           ELSE ArticleFailed
    /\ UNCHANGED <<env_ok, articles, article_idx, exit_code, attempted, fatal,
                   waveVars, dispatchVars, rtVars, jobVars, fileVars, serviceVars>>

\* lines 112-116: store_entities
StoreEntities ==
    /\ ePc = "store"
    /\ \E ok \in BOOLEAN :
        IF ok
           THEN /\ ePc' = "mark"
                /\ UNCHANGED <<articles_processed, articles_failed, marked>>
           ELSE ArticleFailed
    /\ UNCHANGED <<env_ok, articles, article_idx, exit_code, attempted, fatal,
                   waveVars, dispatchVars, rtVars, jobVars, fileVars, serviceVars>>

\* lines 119-135: mark_article_entities_extracted and the statistics
MarkArticle ==
    /\ ePc = "mark"
    /\ \E ok \in BOOLEAN :
        IF ok
           THEN /\ marked' = marked \cup {article_idx}
                /\ articles_processed' = articles_processed + 1
                /\ ePc' = "loop"
                /\ UNCHANGED articles_failed
           ELSE ArticleFailed
    /\ UNCHANGED <<env_ok, articles, article_idx, exit_code, attempted, fatal,
                   waveVars, dispatchVars, rtVars, jobVars, fileVars, serviceVars>>

\* lines 142-153: the summary and return stats
ReturnStats ==
    /\ ePc = "loop"
    /\ article_idx = articles
    /\ ePc' = "returned"
    /\ UNCHANGED <<env_ok, articles, article_idx, articles_processed,
                   articles_failed, marked, exit_code, attempted, fatal,
                   waveVars, dispatchVars, rtVars, jobVars, fileVars, serviceVars>>

\* lines 179-190: main turns the statistics or the exception into sys.exit
MainExit ==
    /\ ePc \in {"returned", "raised"}
    /\ exit_code' = ExitCode(articles_failed, fatal)
    /\ ePc' = "exited"
    /\ UNCHANGED <<env_ok, articles, article_idx, articles_processed,
                   articles_failed, marked, attempted, fatal,
                   waveVars, dispatchVars, rtVars, jobVars, fileVars, serviceVars>>

NextEntity ==
    \/ ValidateEnvironment
    \/ FetchArticles
    \/ NextArticle
    \/ ExtractEntities
    \/ StoreEntities
    \/ MarkArticle
    \/ ReturnStats
    \/ MainExit

EntityIdle ==
    /\ env_ok = TRUE
    /\ articles = 0
    /\ article_idx = 0
    /\ articles_processed = 0
    /\ articles_failed = 0
    /\ marked = {}
    /\ exit_code = -1
    /\ attempted = 0
    /\ fatal = FALSE
    /\ ePc = "start"

(***************************************************************************)
(* The cached analyzer (news_analyzer.py, get_analyzer, shutdown_analyzer).*)
(***************************************************************************)
NumThreads == 2

MaxGetCalls == 3

MaxResets == 2

Threads == 1..NumThreads

\* the body is entered without regard to the lock
LockAcquirableAlways(lock) == TRUE

\* "with _cached_analyzer_lock": a threading.Lock is taken when it is free
LockAcquirable(lock) == lock = 0

InitSingleton ==
    /\ api_key \in BOOLEAN
    /\ cached_analyzer = 0
    /\ cached_analyzer_lock = 0
    /\ created = 0
    /\ resets = 0
    /\ get_calls = 0
    /\ returns = <<>>
    /\ gPc = [t \in Threads |-> "idle"]

SingletonIdle ==
    /\ api_key = TRUE
    /\ cached_analyzer = 0
    /\ cached_analyzer_lock = 0
    /\ created = 0
    /\ resets = 0
    /\ get_calls = 0
    /\ returns = <<>>
    /\ gPc = [t \in Threads |-> "idle"]

\* get_analyzer enters "with _cached_analyzer_lock" (lines 395-398)
GetAnalyzerEnter(t) ==
    /\ gPc[t] = "idle"
    /\ get_calls < MaxGetCalls
    /\ LockAcquirable(cached_analyzer_lock)
    /\ cached_analyzer_lock' = t
    /\ get_calls' = get_calls + 1
    /\ gPc' = [gPc EXCEPT ![t] = "get"]
    /\ UNCHANGED <<api_key, cached_analyzer, created, resets, returns,
                   workflowVars, waveVars, dispatchVars, rtVars, jobVars,
                   fileVars, entityVars, endpointVars>>

\* "if _cached_analyzer is None" (lines 399-404): the cached instance is
\* returned, or the key is looked up, which raises when it is missing, and
\* the constructor is entered; leaving "with" frees the lock
GetAnalyzerCheck(t) ==
    /\ gPc[t] = "get"
    /\ IF cached_analyzer # 0
       THEN /\ returns' = Append(returns,
                   [analyzer |-> cached_analyzer, after_resets |-> resets])
            /\ cached_analyzer_lock' = 0
            /\ gPc' = [gPc EXCEPT ![t] = "idle"]
       ELSE IF ~api_key
       THEN /\ cached_analyzer_lock' = 0
            /\ gPc' = [gPc EXCEPT ![t] = "idle"]
            /\ UNCHANGED returns
       ELSE /\ gPc' = [gPc EXCEPT ![t] = "construct"]
            /\ UNCHANGED <<returns, cached_analyzer_lock>>
    /\ UNCHANGED <<api_key, cached_analyzer, created, resets, get_calls,
                   workflowVars, waveVars, dispatchVars, rtVars, jobVars,
                   fileVars, entityVars, endpointVars>>

\* "_cached_analyzer = NewsAnalyzer(gemini_key=api_key)" and the return
\* (lines 405-406)
GetAnalyzerCreate(t) ==
    /\ gPc[t] = "construct"
    /\ created' = created + 1
    /\ cached_analyzer' = created + 1
    /\ returns' = Append(returns,
           [analyzer |-> created + 1, after_resets |-> resets])
    /\ cached_analyzer_lock' = 0
    /\ gPc' = [gPc EXCEPT ![t] = "idle"]
    /\ UNCHANGED <<api_key, resets, get_calls,
                   workflowVars, waveVars, dispatchVars, rtVars, jobVars,
                   fileVars, entityVars, endpointVars>>

\* shutdown_analyzer enters "with _cached_analyzer_lock" (lines 409-412)
ShutdownAnalyzerEnter(t) ==
    /\ gPc[t] = "idle"
    /\ resets < MaxResets
    /\ LockAcquirable(cached_analyzer_lock)
    /\ cached_analyzer_lock' = t
    /\ gPc' = [gPc EXCEPT ![t] = "shutdown"]
    /\ UNCHANGED <<api_key, cached_analyzer, created, resets, get_calls,
                   returns, workflowVars, waveVars, dispatchVars, rtVars,
                   jobVars, fileVars, entityVars, endpointVars>>

\* "_cached_analyzer = None" under the lock (lines 413-414); the instance
\* taken out is shut down afterwards (lines 416-417)
ShutdownAnalyzerReset(t) ==
    /\ gPc[t] = "shutdown"
    /\ cached_analyzer' = 0
    /\ resets' = resets + 1
    /\ cached_analyzer_lock' = 0
    /\ gPc' = [gPc EXCEPT ![t] = "idle"]
    /\ UNCHANGED <<api_key, created, get_calls, returns,
                   workflowVars, waveVars, dispatchVars, rtVars, jobVars,
                   fileVars, entityVars, endpointVars>>

NextSingleton ==
    \/ \E t \in Threads : GetAnalyzerEnter(t)
    \/ \E t \in Threads : GetAnalyzerCheck(t)
    \/ \E t \in Threads : GetAnalyzerCreate(t)
    \/ \E t \in Threads : ShutdownAnalyzerEnter(t)
    \/ \E t \in Threads : ShutdownAnalyzerReset(t)

(***************************************************************************)
(* The results endpoint (batch_api.py, get_batch_results).                 *)
(***************************************************************************)
MaxRequests == 5

\* "except Exception as e: raise HTTPException(status_code=500, ...)"
\* (lines 239-240): HTTPException is an Exception, so the handler also
\* takes the HTTPException raised in the try block
HandlerStatus(exc_status) == 500

InitEndpoint ==
    /\ requests = 0
    /\ endpoint_state = "none"
    /\ raised_status = 0
    /\ http_status = 0
    /\ retrieve_called = FALSE
    /\ epPc = "idle"

EndpointIdle ==
    /\ requests = 0
    /\ endpoint_state = "none"
    /\ raised_status = 0
    /\ http_status = 0
    /\ retrieve_called = FALSE
    /\ epPc = "idle"

\* a request comes in (lines 213-226): check_status, which may raise, and
\* the test of the state; what is raised in the try block goes through the
\* handler of lines 239-240
GetBatchResults ==
    /\ epPc \in {"idle", "responded"}
    /\ requests < MaxRequests
    /\ requests' = requests + 1
    /\ retrieve_called' = FALSE
    /\ \E raised \in CheckStatusRaises :
          IF raised
          THEN /\ endpoint_state' = "none"
               /\ raised_status' = 0
               /\ http_status' = HandlerStatus(0)
               /\ epPc' = "responded"
          ELSE /\ endpoint_state' = batch_job_state
               /\ IF batch_job_state # "JOB_STATE_SUCCEEDED"
                  THEN /\ raised_status' = 400
                       /\ http_status' = HandlerStatus(400)
                       /\ epPc' = "responded"
                  ELSE /\ raised_status' = 0
                       /\ http_status' = 0
                       /\ epPc' = "retrieve"
    /\ UNCHANGED <<jobVars, workflowVars, singletonVars, waveVars,
                   dispatchVars, rtVars, fileVars, entityVars>>

\* retrieve_results and the response (lines 229-240)
EndpointRetrieve ==
    /\ epPc = "retrieve"
    /\ retrieve_called' = TRUE
    /\ \E raised \in BOOLEAN :
          http_status' = IF raised THEN HandlerStatus(0) ELSE 200
    /\ epPc' = "responded"
    /\ UNCHANGED <<requests, endpoint_state, raised_status, jobVars,
                   workflowVars, singletonVars, waveVars, dispatchVars,
                   rtVars, fileVars, entityVars>>

\* the provider works on the job
EndpointProviderStep ==
    \/ BatchJobStep
    \/ JobBecomesVisible

NextEndpoint ==
    \/ GetBatchResults
    \/ EndpointRetrieve
    \/ EndpointProviderStep

(***************************************************************************)
(* The batch workflow (batch_processor.py, process_batch_workflow).        *)
(***************************************************************************)
WorkflowIdle ==
    /\ wait_for_completion = TRUE
    /\ workflow_calls = <<>>
    /\ workflow_result = "none"
    /\ wfPc = "idle"

ServiceIdle == WorkflowIdle /\ SingletonIdle /\ EndpointIdle

\* poll_interval = 60 and max_wait_time = 3600, the defaults the workflow
\* waits with, in units of one poll interval and scaled to the model
WORKFLOW_POLL_INTERVAL == 1

WORKFLOW_MAX_WAIT_TIME == MaxWaitTime

\* results are fetched whatever the wait gave
RetrieveAfterWaitAlways(success) == TRUE

\* "if not success: ... return None" (lines 501-503) negated
RetrieveAfterWait(success) == success = "true"

InitWorkflow ==
    /\ wait_for_completion \in BOOLEAN
    /\ workflow_calls = <<>>
    /\ workflow_result = "none"
    /\ wfPc = "idle"

\* step 1 (lines 485-489): prepare_batch_from_urls, which raises for too
\* many urls
WorkflowPrepare ==
    /\ wfPc = "idle"
    /\ workflow_calls' = Append(workflow_calls, "prepare")
    /\ \E raised \in BOOLEAN :
          wfPc' = IF raised THEN "raised" ELSE "prepared"
    /\ UNCHANGED <<wait_for_completion, workflow_result, jobVars, waveVars,
                   dispatchVars, rtVars, fileVars, entityVars, singletonVars, endpointVars>>

\* step 2 (lines 491-496): submit_batch, which may raise; without
\* wait_for_completion the workflow returns None here
WorkflowSubmit ==
    /\ wfPc = "prepared"
    /\ workflow_calls' = Append(workflow_calls, "submit")
    /\ \E raised \in BOOLEAN :
          IF raised
          THEN /\ wfPc' = "raised"
               /\ UNCHANGED <<workflow_result, job_visible>>
          ELSE /\ job_visible' \in BOOLEAN
               /\ IF wait_for_completion
                  THEN wfPc' = "submitted" /\ UNCHANGED workflow_result
                  ELSE wfPc' = "returned" /\ workflow_result' = "None"
    /\ UNCHANGED <<wait_for_completion, batch_job_state, metadata_status,
                   csResult, poll_interval, max_wait_time, elapsed, status,
                   polls, wPc, wReturn, rPc, rState, rError, downloaded,
                   waveVars, dispatchVars, rtVars, fileVars, entityVars, singletonVars, endpointVars>>

\* step 3 (line 499): processor.wait_for_completion(job_id) is entered
WorkflowWait ==
    /\ wfPc = "submitted"
    /\ workflow_calls' = Append(workflow_calls, "wait")
    /\ WaitForCompletionEntered(WORKFLOW_POLL_INTERVAL, WORKFLOW_MAX_WAIT_TIME)
    /\ wfPc' = "waiting"
    /\ UNCHANGED <<wait_for_completion, workflow_result, batch_job_state,
                   job_visible, metadata_status, csResult, rPc, rState, rError,
                   downloaded, waveVars, dispatchVars, rtVars, fileVars,
                   entityVars, singletonVars, endpointVars>>

\* the wait is over (lines 499-506): its exception leaves the workflow, a
\* false answer makes it return None, a true one makes it enter
\* retrieve_results (step 4)
WorkflowAfterWait ==
    /\ wfPc = "waiting"
    /\ wPc \in {"returned", "raised"}
    /\ IF wPc = "raised"
       THEN /\ wfPc' = "raised"
            /\ UNCHANGED <<workflow_calls, workflow_result, rPc, rState,
                           rError, downloaded>>
       ELSE IF RetrieveAfterWait(wReturn)
       THEN /\ workflow_calls' = Append(workflow_calls, "retrieve")
            /\ RetrieveResultsEntered
            /\ wfPc' = "retrieving"
            /\ UNCHANGED workflow_result
       ELSE /\ wfPc' = "returned"
            /\ workflow_result' = "None"
            /\ UNCHANGED <<workflow_calls, rPc, rState, rError, downloaded>>
    /\ UNCHANGED <<wait_for_completion, batch_job_state, job_visible,
                   metadata_status, csResult, poll_interval, max_wait_time,
                   elapsed, status, polls, wPc, wReturn, waveVars,
                   dispatchVars, rtVars, fileVars, entityVars, singletonVars, endpointVars>>

\* retrieve_results is over (lines 506-508): "return results", or its
\* exception leaves the workflow
WorkflowReturn ==
    /\ wfPc = "retrieving"
    /\ rPc \in {"returned", "raised"}
    /\ IF rPc = "returned"
       THEN wfPc' = "returned" /\ workflow_result' = "results"
       ELSE wfPc' = "raised" /\ UNCHANGED workflow_result
    /\ UNCHANGED <<wait_for_completion, workflow_calls, jobVars, waveVars,
                   dispatchVars, rtVars, fileVars, entityVars, singletonVars, endpointVars>>

\* the provider works on the job once it has been submitted
WorkflowProviderStep ==
    /\ wfPc \notin {"idle", "prepared"}
    /\ \/ BatchJobStep
       \/ JobBecomesVisible

NextWorkflow ==
    \/ WorkflowPrepare
    \/ WorkflowSubmit
    \/ WorkflowWait
    \/ WaitPoll
    \/ WorkflowAfterWait
    \/ RetrieveDownload
    \/ WorkflowReturn
    \/ WorkflowProviderStep


(***************************************************************************)
(* Specifications.                                                         *)
(***************************************************************************)
InitW == InitWave /\ DispatchIdle /\ RealtimeIdle /\ JobIdle
             /\ FileIdle /\ EntityIdle /\ ServiceIdle

SpecWave == InitW /\ [][NextWave]_vars

\* the run is one task that goes on after every await; the provider moves
\* every job along; check_status does not raise for ever
FairSpecWave ==
    /\ InitW
    /\ [][NextWave]_vars
    /\ WF_vars(BuildWaves)
    /\ WF_vars(SubmitBatch)
    /\ WF_vars(SaveJobMetadata)
    /\ WF_vars(TrackJob)
    /\ WF_vars(PollRoundEnd)
    /\ WF_vars(ProviderStep)
    /\ SF_vars(PollJobWith(FALSE))

InitD == InitDispatch /\ WaveIdle /\ RealtimeIdle /\ JobIdle
             /\ FileIdle /\ EntityIdle /\ ServiceIdle

SpecDispatch == InitD /\ [][NextDispatch]_vars

\* a step of a call that has been started
CallerStep ==
    \E c \in Callers :
        \/ SemaphoreLockAcquire(c)
        \/ SemaphoreCreate(c)
        \/ SemaphoreAcquire(c)
        \/ RateLimit(c)
        \/ WakeUp(c)
        \/ FinishCall(c)

\* while a coroutine can go on the event loop runs one, time passes, and
\* asyncio.wait_for ends every inference call
FairSpecDispatch ==
    /\ InitD
    /\ [][NextDispatch]_vars
    /\ WF_vars(Tick)
    /\ WF_vars(CallerStep)

InitR == InitRealtime /\ WaveIdle /\ DispatchIdle /\ JobIdle
             /\ FileIdle /\ EntityIdle /\ ServiceIdle

SpecRealtime == InitR /\ [][NextRealtime]_vars

InitJ == InitJob /\ WaveIdle /\ DispatchIdle /\ RealtimeIdle
             /\ FileIdle /\ EntityIdle /\ ServiceIdle

SpecJob == InitJ /\ [][NextJob]_vars

\* a running wait_for_completion is not suspended for ever: its thread goes
\* on after each check_status and each time.sleep
FairSpecJob == InitJ /\ [][NextJob]_vars /\ WF_vars(WaitPoll)

InitF == InitFile /\ WaveIdle /\ DispatchIdle /\ RealtimeIdle /\ JobIdle
             /\ EntityIdle /\ ServiceIdle

SpecBatchFile == InitF /\ [][NextFile]_vars

InitE == InitEntity /\ WaveIdle /\ DispatchIdle /\ RealtimeIdle /\ JobIdle
             /\ FileIdle /\ ServiceIdle

SpecEntity == InitE /\ [][NextEntity]_vars

InitWf == InitWorkflow /\ WaveIdle /\ DispatchIdle /\ RealtimeIdle /\ JobIdle
              /\ FileIdle /\ EntityIdle /\ SingletonIdle /\ EndpointIdle

SpecWorkflow == InitWf /\ [][NextWorkflow]_vars

InitS == InitSingleton /\ WaveIdle /\ DispatchIdle /\ RealtimeIdle /\ JobIdle
             /\ FileIdle /\ EntityIdle /\ WorkflowIdle /\ EndpointIdle

SpecSingleton == InitS /\ [][NextSingleton]_vars

InitEp == InitEndpoint /\ InitJob /\ WaveIdle /\ DispatchIdle /\ RealtimeIdle
              /\ FileIdle /\ EntityIdle /\ WorkflowIdle /\ SingletonIdle

SpecEndpoint == InitEp /\ [][NextEndpoint]_vars

(***************************************************************************)
(* Properties of the wave scheduler.                                       *)
(***************************************************************************)
JobTerminal(job_info) == jobState[job_info.job_id] \in TerminalStates

\* estimated tokens of the tracked jobs that are not in a terminal state
RECURSIVE EnqueuedTokens(_)
EnqueuedTokens(js) ==
    IF js = <<>> THEN 0
    ELSE (IF JobTerminal(Head(js)) THEN 0
          ELSE Head(js).item_count * AVG_INPUT_TOKENS_PER_ARTICLE)
         + EnqueuedTokens(Tail(js))

\* C1: with wait_for_waves, while the scheduler is submitting the batches
\* of a wave every job of an earlier wave is terminal, no job of a wave is
\* tracked next to a non-terminal job of an earlier wave, and the estimated
\* tokens of the non-terminal jobs never exceed the safe enqueued budget.
WaveGating ==
    wait_for_waves =>
        /\ \A k \in 1..Len(all_job_ids) :
              (bPc = "submit" /\ all_job_ids[k].wave < wave_num)
                  => JobTerminal(all_job_ids[k])
        /\ \A k, m \in 1..Len(all_job_ids) :
              all_job_ids[k].wave < all_job_ids[m].wave
                  => JobTerminal(all_job_ids[k])
        /\ EnqueuedTokens(all_job_ids) <= SAFE_ENQUEUED_TOKENS

\* the gate was passed: a job of wave 2 is tracked after a job of wave 1
WaveGatingWitness ==
    /\ wait_for_waves
    /\ \E k, m \in 1..Len(all_job_ids) :
          /\ all_job_ids[k].wave = 1
          /\ all_job_ids[m].wave = 2
          /\ ~JobTerminal(all_job_ids[m])

\* C2: every wave that is built has an estimated token usage (item count
\* times AVG_INPUT_TOKENS_PER_ARTICLE) of at most SAFE_ENQUEUED_TOKENS.
WaveTokensWithinBudget ==
    \A k \in 1..Len(waves) :
        SliceLen(waves[k]) * AVG_INPUT_TOKENS_PER_ARTICLE <= SAFE_ENQUEUED_TOKENS

\* a completely filled wave followed by another wave
WaveTokensWitness ==
    /\ Len(waves) >= 2
    /\ SliceLen(waves[1]) * AVG_INPUT_TOKENS_PER_ARTICLE
          > SAFE_ENQUEUED_TOKENS - AVG_INPUT_TOKENS_PER_ARTICLE

\* C3: every batch of the scheduler has at most max_batch_size items, so
\* that prepare_batch_from_contents rejects none of them for its size.
BatchesWithinLimit ==
    /\ \A b \in 1..Len(batches) : SliceLen(batches[b]) <= max_batch_size
    /\ \A a \in 1..Len(attempts) : attempts[a].result # "ValueError"

(***************************************************************************)
(* Properties of the dispatcher.                                           *)
(***************************************************************************)
InFlight == {c \in Callers : dPc[c] \in HoldingPcs}

\* C4: the callers inside "async with semaphore", and so the inference
\* calls in flight, never number more than max_concurrent.
ConcurrencyCap == Cardinality(InFlight) <= max_concurrent

\* the cap is reached, a further caller is held back at the semaphore,
\* and a caller that found no semaphore at its outer check is still on its
\* way to the lock although the semaphore has been created meanwhile
ConcurrencyCapWitness ==
    /\ Cardinality({c \in Callers : dPc[c] = "inflight"}) = max_concurrent
    /\ \E c \in Callers : dPc[c] = "acquire" /\ sems[mySem[c]] = 0
    /\ \E c \in Callers : dPc[c] = "semlock" /\ llm_semaphore # 0

\* C5: successive values written to _last_request_time are at least
\* MIN_REQUEST_INTERVAL apart, and n dispatches span at least
\* (n - 1) * MIN_REQUEST_INTERVAL.
MinimumInterval ==
    /\ \A k \in 1..(Len(dispatches) - 1) :
          dispatches[k + 1] - dispatches[k] >= MIN_REQUEST_INTERVAL
    /\ Len(dispatches) >= 1 =>
          dispatches[Len(dispatches)] - dispatches[1]
              >= (Len(dispatches) - 1) * MIN_REQUEST_INTERVAL

\* three dispatches, the last by a caller that slept the residual interval
MinimumIntervalWitness ==
    /\ Len(dispatches) >= 3
    /\ \E c \in Callers :
          /\ dPc[c] = "inflight"
          /\ wake[c] > 0
          /\ last_request_time = wake[c]

AllCallsOver == \A c \in Callers : dPc[c] \in {"returned", "raised"}

\* C6: once every started call has returned or raised, the semaphore has
\* max_concurrent free slots again.
SlotsRestored ==
    (AllCallsOver /\ llm_semaphore # 0) => sems[llm_semaphore] = max_concurrent

\* all calls are over and they ended in a success, a timeout and a
\* provider error
SlotsRestoredWitness ==
    /\ AllCallsOver
    /\ llm_semaphore # 0
    /\ \E a, b, c \in Callers :
          /\ callOutcome[a] = "ok"
          /\ callOutcome[b] = "timeout"
          /\ callOutcome[c] = "error"

(***************************************************************************)
(* Properties of the real-time processor.                                  *)
(***************************************************************************)
IdsOf(res) == {res[k].original_id : k \in 1..Len(res)}

NoDuplicateIds(res) ==
    \A k, m \in 1..Len(res) : res[k].original_id = res[m].original_id => k = m

SavedLen == IF fileExists THEN Len(file) ELSE 0

RtRunning == rtPc \in {"loop", "errsave", "final", "stats"}

\* C7: an invocation attempts no item whose id was in the checkpoint it
\* loaded, the ids of that checkpoint stay in the results and in the file,
\* and no id occurs twice in the results or in the file.
ResumeIdempotent ==
    /\ \A k \in 1..Len(sessionAttempts) : sessionAttempts[k] \notin processedBefore
    /\ processedBefore \subseteq IdsOf(results)
    /\ fileExists => processedBefore \subseteq IdsOf(file)
    /\ NoDuplicateIds(results)
    /\ NoDuplicateIds(file)

\* a run resumed from a non-empty checkpoint attempted further items and
\* came to its end
ResumeIdempotentWitness ==
    /\ invocations >= 2
    /\ processedBefore # {}
    /\ sessionAttempts # <<>>
    /\ rtPc \in {"returned", "raised"}
    /\ Len(file) = rtItems

\* C8: an invocation attempts at most items_per_day items.
QuotaRespected == Len(sessionAttempts) <= items_per_day

FailureStep ==
    /\ (rtPc = "loop" /\ rtPc' = "errsave") =>
          /\ results' = Append(results,
                 [original_id |-> items_to_process[rtI], error |-> TRUE])
          /\ rtI' = rtI
    /\ (rtPc = "errsave" /\ rtPc' # "crashed") =>
          /\ file' = results
          /\ fileExists'
          /\ results' = results
          /\ rtI' = rtI + 1
          /\ rtPc' = "loop"

FailureContinues == [][FailureStep]_vars

\* after a failure was recorded and saved, the loop stands at a further
\* pending item
FailureContinuesWitness ==
    /\ rtPc = "loop"
    /\ rtI > 1
    /\ rtI <= Len(items_to_process)
    /\ results # <<>>
    /\ results[Len(results)].error
    /\ results[Len(results)].original_id = items_to_process[rtI - 1]
    /\ fileExists
    /\ file = results

\* the ids recorded in the checkpoint file
ProcessedOnDisk == IF fileExists THEN IdsOf(file) ELSE {}

\* the ids of the items the loop of this invocation did not come to
StillPending ==
    {items_to_process[k] : k \in rtI..Len(items_to_process)}

RtEnded == invocations >= 1 /\ rtPc \in {"returned", "raised"}

\* C11: at the end of every invocation the ids recorded in the checkpoint
\* are exactly the ids of the result entries, no recorded id is still
\* pending, and recorded and pending ids together are the ids of all items.
CheckpointPartition ==
    RtEnded =>
        /\ ProcessedOnDisk = IdsOf(results)
        /\ ProcessedOnDisk \cap StillPending = {}
        /\ ProcessedOnDisk \cup StillPending = 1..rtItems

\* an invocation over a loaded checkpoint attempted further items and ended
\* with every item recorded
CheckpointPartitionWitness ==
    /\ RtEnded
    /\ processedBefore # {}
    /\ sessionAttempts # <<>>
    /\ StillPending = {}
    /\ ProcessedOnDisk = 1..rtItems

\* the proportions of Scenario B: items_per_day = 400 for 1000 items
ScenarioBShape == items_per_day > 0 /\ items_per_day * 1000 = rtItems * 400

\* C12: in Scenario B, without a checkpoint, the first invocation ends with
\* exactly items_per_day items processed and saved and the others pending,
\* and the second invocation ends with every item processed once.
ScenarioB ==
    /\ (ScenarioBShape /\ invocations = 1 /\ RtEnded) =>
          /\ Len(results) = items_per_day
          /\ file = results
          /\ Cardinality(StillPending) = rtItems - items_per_day
    /\ (ScenarioBShape /\ invocations = 2 /\ RtEnded) =>
          /\ IdsOf(file) = 1..rtItems
          /\ NoDuplicateIds(file)

\* C13: every item the invocation attempted caused exactly one inference
\* call that reached the dispatcher, and a call the provider answered
\* successfully left a result entry for its item that is no error entry.
OneInferencePerItem ==
    /\ [k \in 1..Len(inferenceCalls) |-> inferenceCalls[k].item]
          = sessionAttempts
    /\ \A k \in 1..Len(inferenceCalls) :
          inferenceCalls[k].answer = "ok" =>
              \E m \in 1..Len(results) :
                  /\ results[m].original_id = inferenceCalls[k].item
                  /\ ~results[m].error

(***************************************************************************)
(* Properties of the tracking of a job.                                    *)
(***************************************************************************)
\* C14: wait_for_completion returns true only after a poll that gave
\* SUCCEEDED; after a poll that gave FAILED or CANCELLED it returns false;
\* it returns false when max_wait_time has elapsed and no poll gave a
\* finished state; it polls neither after a poll gave a finished state nor
\* after max_wait_time has elapsed.
WaitResult ==
    /\ wReturn = "true" => status = "JOB_STATE_SUCCEEDED"
    /\ (wPc = "returned"
            /\ status \in {"JOB_STATE_FAILED", "JOB_STATE_CANCELLED"})
          => wReturn = "false"
    /\ (wPc = "returned" /\ status \notin TerminalStates)
          => (wReturn = "false" /\ elapsed >= max_wait_time)
    /\ wPc = "polling" =>
          /\ status \notin TerminalStates
          /\ wReturn = "none"
          /\ polls > 0 => elapsed - poll_interval < max_wait_time

\* the job was seen running by two polls and the wait ran out of time
WaitResultWitness ==
    /\ wPc = "returned"
    /\ wReturn = "false"
    /\ status = "JOB_STATE_RUNNING"
    /\ polls >= 2
    /\ elapsed >= max_wait_time

\* C20: a call of retrieve_results that found the job in a state other than
\* SUCCEEDED raised the error naming that state and downloaded nothing;
\* only a call that found SUCCEEDED goes on to the download and returns
\* results.
RetrieveNeedsSucceeded ==
    /\ (rState # "none" /\ rState # "JOB_STATE_SUCCEEDED") =>
          /\ rPc = "raised"
          /\ rError = rState
          /\ ~downloaded
    /\ (rPc \in {"download", "returned"} \/ downloaded) =>
          rState = "JOB_STATE_SUCCEEDED"

\* retrieve_results was called for a job that had failed
RetrieveNeedsSucceededWitness ==
    /\ rPc = "raised"
    /\ rError = "JOB_STATE_FAILED"
    /\ batch_job_state = "JOB_STATE_FAILED"
    /\ ~downloaded

(***************************************************************************)
(* Properties of the job tracking of the wave scheduler.                   *)
(***************************************************************************)
\* the job ids recorded in job_tracking.json
LedgerJobIds == {job_tracking[k].job_id : k \in 1..Len(job_tracking)}

\* the jobs the provider accepted
AcceptedJobs == 1..Len(jobState)

\* C15: once submit_batch has returned, the job_id of every accepted job
\* is in job_tracking.json, and a killed run leaves no accepted job whose
\* job_id is neither in job_tracking.json nor in a job metadata file.
JobIdDurable ==
    /\ bPc = "submitted" => AcceptedJobs \subseteq LedgerJobIds
    /\ bPc = "crashed" => AcceptedJobs \subseteq (LedgerJobIds \cup job_metadata)

\* C16: every write of job_tracking.json keeps the entries written before,
\* unchanged and in their order, and adds one entry, which is the one of
\* the batch just submitted; the entries stand in increasing order of
\* (wave, batch_num).
LedgerStep ==
    job_tracking' # job_tracking =>
        /\ Len(job_tracking') = Len(job_tracking) + 1
        /\ SubSeq(job_tracking', 1, Len(job_tracking)) = job_tracking
        /\ LET e == job_tracking'[Len(job_tracking')]
           IN  /\ e.wave = wave_num
               /\ e.batch_num = batch_i
               /\ e.job_id = Len(jobState)
               /\ e.item_count = SliceLen(batches[batch_i])
               /\ \A k \in 1..Len(job_tracking) :
                     \/ job_tracking[k].wave < e.wave
                     \/ /\ job_tracking[k].wave = e.wave
                        /\ job_tracking[k].batch_num < e.batch_num

LedgerAppendOnly == [][LedgerStep]_vars

\* the ledger holds an entry of a second wave after the entry of the first
LedgerAppendOnlyWitness ==
    /\ Len(job_tracking) >= 2
    /\ job_tracking[1].wave = 1
    /\ job_tracking[2].wave = 2

\* an attempt that did not end in a tracked job
FailedAttempt(a) == a.result # "ok"

SameBatch(a, b) == a.wave = b.wave /\ a.batch_num = b.batch_num

\* C17: the attempt that follows a rate-limited attempt is an attempt of
\* the same batch, and the run does not end on a rate-limited attempt.
RateLimitRetried ==
    \A k \in 1..Len(attempts) :
        attempts[k].result = "429" =>
            /\ k < Len(attempts) => SameBatch(attempts[k + 1], attempts[k])
            /\ k = Len(attempts) => bPc # "done"

\* number of batches of wave w
BatchesOfWave(w) == Len(split_into_batches(waves[w], BATCH_SIZE))

\* the attempt b is the one that follows the attempt a in the order of
\* the waves and of the batches in a wave
FollowsInOrder(a, b) ==
    IF a.batch_num < BatchesOfWave(a.wave)
    THEN b.wave = a.wave /\ b.batch_num = a.batch_num + 1
    ELSE b.wave = a.wave + 1 /\ b.batch_num = 1

\* C18: no failure of a batch ends the run: the attempts go through every
\* batch of every wave in order, whatever the results before, a run that
\* ended has attempted the last batch of the last wave, and a failed batch
\* is neither among the tracked jobs nor in job_tracking.json.
FailureSkipped ==
    /\ bPc # "raised"
    /\ \A k \in 1..Len(attempts) :
          IF k = 1
          THEN attempts[k].wave = 1 /\ attempts[k].batch_num = 1
          ELSE FollowsInOrder(attempts[k - 1], attempts[k])
    /\ (bPc = "done" /\ waves # <<>>) =>
          /\ attempts # <<>>
          /\ attempts[Len(attempts)].wave = Len(waves)
          /\ attempts[Len(attempts)].batch_num = BatchesOfWave(Len(waves))
    /\ \A k \in 1..Len(attempts) :
          FailedAttempt(attempts[k]) =>
              /\ \A j \in 1..Len(all_job_ids) :
                    ~SameBatch(all_job_ids[j], attempts[k])
              /\ \A j \in 1..Len(job_tracking) :
                    ~SameBatch(job_tracking[j], attempts[k])

\* a run ended in which a batch of the first wave was refused at its
\* preparation, the last batch of that wave failed at the provider, and a
\* batch of a later wave was submitted
FailureSkippedWitness ==
    /\ bPc = "done"
    /\ \E k, m, n \in 1..Len(attempts) :
          /\ k < m /\ m < n
          /\ attempts[k].wave = 1 /\ attempts[k].result = "ValueError"
          /\ attempts[m].wave = 1 /\ attempts[m].result \in {"429", "error"}
          /\ attempts[n].wave > 1 /\ attempts[n].result = "ok"

\* the value process_with_batch_api returns (line 224)
ReturnedValue == all_job_ids

\* the returned value marks the batch as failed
ReportedFailed(wave, batch_num) ==
    \E k \in 1..Len(ReturnedValue) :
        /\ ReturnedValue[k].wave = wave
        /\ ReturnedValue[k].batch_num = batch_num
        /\ "status" \in DOMAIN ReturnedValue[k]
        /\ ReturnedValue[k].status = "failed"

\* C19: when the run has ended, the returned value marks as failed every
\* batch whose submission failed and every batch whose job ended FAILED or
\* CANCELLED.
FailureReport ==
    bPc = "done" =>
        /\ \A k \in 1..Len(attempts) :
              FailedAttempt(attempts[k]) =>
                  ReportedFailed(attempts[k].wave, attempts[k].batch_num)
        /\ \A j \in 1..Len(all_job_ids) :
              jobState[all_job_ids[j].job_id]
                    \in {"JOB_STATE_FAILED", "JOB_STATE_CANCELLED"} =>
                  ReportedFailed(all_job_ids[j].wave, all_job_ids[j].batch_num)

(***************************************************************************)
(* Properties of the batch file and of the reading of the output.          *)
(***************************************************************************)
\* the lines of the output that parse and carry a response
ResponseLines ==
    {k \in 1..Len(output_lines) : output_lines[k].kind = "response"}

\* C21: no line of the output makes retrieve_results raise, and when it
\* returns it has one Result for every line that parses and carries a
\* response.
MalformedLineSkipped ==
    /\ fPc # "raised"
    /\ fPc = "returned" => Len(batch_results) = Cardinality(ResponseLines)

\* C22: when retrieve_results returns, the Result of every response line
\* whose custom_id is in the mapping carries the item id the mapping has
\* for that custom_id, and there are no Results besides these.
MappingRoundTrip ==
    fPc = "returned" =>
        LET known == {k \in ResponseLines :
                         output_lines[k].custom_id \in DOMAIN id_mapping}
        IN  /\ Len(batch_results) = Cardinality(known)
            /\ \A k \in known :
                  \E m \in 1..Len(batch_results) :
                      /\ "original_id" \in DOMAIN batch_results[m]
                      /\ batch_results[m].original_id
                            = id_mapping[output_lines[k].custom_id]

\* C23: the keys of the mapping are the custom_ids in the batch file, each
\* stands for an item with content and maps to the id of that item, an
\* item without content has neither a request nor a key, and two keys map
\* to two ids.
IdMappingBijection ==
    fPc \in {"prepared", "parse", "returned"} =>
        /\ DOMAIN id_mapping
              = {batch_requests[k] : k \in 1..Len(batch_requests)}
        /\ \A k, m \in 1..Len(batch_requests) :
              batch_requests[k] = batch_requests[m] => k = m
        /\ \A c \in DOMAIN id_mapping :
              /\ c + 1 \in 1..Len(contents)
              /\ contents[c + 1].has_content
              /\ id_mapping[c] = contents[c + 1].id
        /\ \A p \in 1..Len(contents) :
              contents[p].has_content <=> (p - 1) \in DOMAIN id_mapping
        /\ \A c, d \in DOMAIN id_mapping :
              id_mapping[c] = id_mapping[d] => c = d

\* a batch was prepared from items of which one in the middle is empty
IdMappingBijectionWitness ==
    /\ fPc = "prepared"
    /\ Len(contents) = 3
    /\ contents[1].has_content
    /\ ~contents[2].has_content
    /\ contents[3].has_content
    /\ batch_requests = <<0, 2>>

(***************************************************************************)
(* Properties of the partition into waves and batches.                     *)
(***************************************************************************)
\* ceil(n / d) for d > 0
CeilDiv(n, d) == (n \div d) + (IF n % d = 0 THEN 0 ELSE 1)

WavesBuilt == bPc # "start"

WaveSizes == [k \in 1..Len(waves) |-> waves[k].hi - waves[k].lo]

\* the wave loop stands in wave k with c batches, for waves of the sizes
\* given
ScenarioAWaves(sizes, counts) ==
    (WavesBuilt /\ nItems = 12000) =>
        /\ WaveSizes = sizes
        /\ wave_num >= 1 => Len(batches) = counts[wave_num]

\* C24 as stated: the number of waves is ceil(len(items) / W), and 12,000
\* items give waves of 3200, 3200, 3200 and 2400 items with 4, 4, 4 and 3
\* batches.
WaveCountAsStated ==
    /\ WavesBuilt => Len(waves) = CeilDiv(nItems, MAX_ARTICLES_PER_WAVE)
    /\ ScenarioAWaves(<<3200, 3200, 3200, 2400>>, <<4, 4, 4, 3>>)

\* C24 amended: the number of waves is ceil(len(items) / W) with W =
\* MAX_ARTICLES_PER_WAVE = 3214, and 12,000 items give waves of 3214, 3214,
\* 3214 and 2358 items with 4, 4, 4 and 3 batches.
WaveCount ==
    /\ WavesBuilt => Len(waves) = CeilDiv(nItems, MAX_ARTICLES_PER_WAVE)
    /\ ScenarioAWaves(<<3214, 3214, 3214, 2358>>, <<4, 4, 4, 3>>)

\* the run over 12,000 items stands in its fourth wave
WaveCountWitness ==
    /\ nItems = 12000
    /\ wave_num = 4
    /\ bPc = "submit"
    /\ Len(batches) = 3

\* the slices in seq lie end to end from lo to hi and none is empty
Contiguous(seq, lo, hi) ==
    /\ seq # <<>>
    /\ seq[1].lo = lo
    /\ seq[Len(seq)].hi = hi
    /\ \A k \in 1..Len(seq) : seq[k].lo < seq[k].hi
    /\ \A k \in 1..(Len(seq) - 1) : seq[k].hi = seq[k + 1].lo

\* C25: wave k (from 0) is the slice [k*W, min((k+1)*W, N)) of the items,
\* the waves lie end to end over the whole input, the batches of the wave
\* at hand lie end to end over that wave with at most BATCH_SIZE items
\* each, and no wave and no batch is empty.
PartitionExact ==
    WavesBuilt =>
        /\ \A k \in 1..Len(waves) :
              /\ waves[k].lo = (k - 1) * MAX_ARTICLES_PER_WAVE
              /\ waves[k].hi = Min(k * MAX_ARTICLES_PER_WAVE, nItems)
        /\ IF nItems = 0 THEN waves = <<>> ELSE Contiguous(waves, 0, nItems)
        /\ wave_num >= 1 =>
              /\ Contiguous(batches, waves[wave_num].lo, waves[wave_num].hi)
              /\ \A b \in 1..Len(batches) :
                    batches[b].hi - batches[b].lo <= BATCH_SIZE
              /\ \A b \in 1..(Len(batches) - 1) :
                    batches[b].hi - batches[b].lo = BATCH_SIZE

\* the run stands at the last, partly filled batch of its second wave
PartitionExactWitness ==
    /\ bPc = "submit"
    /\ wave_num = 2
    /\ Len(batches) = 4
    /\ batch_i = 4
    /\ batches[4].hi - batches[4].lo = 214
    /\ Len(waves) = 3

(***************************************************************************)
(* Properties of check_status, of the job record and of the read-only      *)
(* tracking.                                                               *)
(***************************************************************************)
\* C26: a call of check_status for a job the provider does not show does
\* not raise but reports the job as SUBMITTED.
NotVisibleIsSubmitted ==
    (~job_visible /\ csResult # "none") => csResult = "SUBMITTED"

\* C27: after wait_for_completion has returned false on a poll that gave
\* FAILED, the status in the persisted record of the job is FAILED.
FailedJobRecorded ==
    (wPc = "returned" /\ wReturn = "false" /\ status = "JOB_STATE_FAILED")
        => metadata_status = "JOB_STATE_FAILED"

\* a step of check_status, wait_for_completion or retrieve_results
TrackerStep ==
    \/ csResult' # csResult
    \/ <<wPc, wReturn, status, polls, elapsed>>'
          # <<wPc, wReturn, status, polls, elapsed>>
    \/ <<rPc, rState, rError, downloaded>>' # <<rPc, rState, rError, downloaded>>

\* C28: no step of the tracker changes the state of the job at the
\* provider, the step in which wait_for_completion gives up included.
TrackerReadsOnlyStep ==
    /\ TrackerStep => batch_job_state' = batch_job_state
    /\ (wPc = "polling" /\ wPc' = "returned" /\ wReturn' = "false")
          => batch_job_state' = batch_job_state

TrackerReadsOnly == [][TrackerReadsOnlyStep]_vars

\* wait_for_completion gave up on a job that is still running
TrackerReadsOnlyWitness ==
    /\ wPc = "returned"
    /\ wReturn = "false"
    /\ polls >= 1
    /\ status \notin TerminalStates
    /\ batch_job_state = "JOB_STATE_RUNNING"
    /\ csResult = "JOB_STATE_RUNNING"

EntityRunEnded == ePc \in {"returned", "exited"}

IsolationAndExitCode ==
    /\ EntityRunEnded =>
          /\ attempted = articles
          /\ articles_processed + articles_failed = articles
          /\ Cardinality(marked) = articles_processed
    /\ ePc = "exited" =>
          exit_code = (IF ~fatal /\ articles_failed = 0 THEN 0 ELSE 1)
    /\ ePc # "exited" => exit_code = -1

\* the first article failed, the last one was processed, and main exited
\* with 1 although nothing fatal happened
IsolationAndExitCodeWitness ==
    /\ ePc = "exited"
    /\ ~fatal
    /\ articles >= 2
    /\ 1 \notin marked
    /\ articles \in marked
    /\ articles_failed >= 1
    /\ exit_code = 1

\* C31: wait_for_completion ends: it makes at most
\* ceil(max_wait_time / poll_interval) polls, makes none and returns false
\* when max_wait_time is 0, and a running wait always comes to its end,
\* whether or not the job finishes.
PollsBounded ==
    /\ polls <= CeilDiv(max_wait_time, poll_interval)
    /\ (wPc = "returned" /\ max_wait_time = 0) =>
          (polls = 0 /\ wReturn = "false")

WaitEnded == wPc \in {"returned", "raised"}

WaitTerminates ==
    /\ []PollsBounded
    /\ (wPc = "polling") ~> WaitEnded

\* a wait of 3 with an interval of 2 made both of its polls, saw no
\* finished state and returned false
WaitTerminatesWitness ==
    /\ wPc = "returned"
    /\ wReturn = "false"
    /\ max_wait_time % poll_interval # 0
    /\ polls = CeilDiv(max_wait_time, poll_interval)
    /\ polls >= 2
    /\ status \notin TerminalStates

\* C32: the wave-wait loop is left exactly at the end of a polling round in
\* which every job of the wave was seen SUCCEEDED, FAILED or CANCELLED; as
\* the jobs all finish, the loop is left and every wave gets submitted,
\* also when some of the status polls raise.
RoundOver == bPc = "poll" /\ poll_idx > Len(wave_job_ids)

AllSeenTerminal == completed + failed = Len(wave_job_ids)

WaveWaitStep ==
    /\ (bPc = "poll" /\ bPc' \notin {"poll", "crashed"}) =>
          /\ RoundOver
          /\ AllSeenTerminal
          /\ \A k \in 1..Len(wave_job_ids) : JobTerminal(wave_job_ids[k])
    /\ (RoundOver /\ AllSeenTerminal) => bPc' # "poll"

RunOver == bPc \in {"done", "crashed"}

EveryWaveSubmitted ==
    /\ wave_num = Len(waves)
    /\ \A w \in 1..Len(waves) : \E k \in 1..Len(attempts) : attempts[k].wave = w

WaveWaitExits ==
    /\ [][WaveWaitStep]_vars
    /\ (bPc = "poll") ~> (bPc # "poll")
    /\ <>RunOver
    /\ [](bPc = "done" => EveryWaveSubmitted)

\* a gated run of several waves came to its end although a status poll
\* had raised and a job of the first wave had failed or was cancelled
WaveWaitExitsWitness ==
    /\ bPc = "done"
    /\ wait_for_waves
    /\ poll_raised
    /\ Len(waves) >= 2
    /\ Len(all_job_ids) >= 2
    /\ jobState[all_job_ids[1].job_id] \in {"JOB_STATE_FAILED", "JOB_STATE_CANCELLED"}

\* C33: the rate-limit lock is only held by a caller that holds a slot of
\* the semaphore and never during an inference call, and every call of
\* llm_analyzer that was started returns or raises.
LockOrder ==
    /\ rate_limit_lock # 0 => dPc[rate_limit_lock] = "sleeping"
    /\ \A c \in Callers :
          dPc[c] \in HoldingPcs => (mySem[c] # 0 /\ sems[mySem[c]] < max_concurrent)

CallOver(c) == dPc[c] \in {"returned", "raised"}

\* no call is under way
NoCallPending == \A c \in Callers : dPc[c] = "idle" \/ CallOver(c)

EveryCallEnds ==
    /\ []LockOrder
    /\ []<>NoCallPending

\* more callers than slots went through the semaphore, one of them slept
\* under the rate-limit lock while another one waited for it, and all of
\* them came to their end
EveryCallEndsWitness ==
    /\ \A c \in Callers : CallOver(c)
    /\ Len(dispatches) > max_concurrent
    /\ \E k \in 2..Len(dispatches) :
          dispatches[k] = dispatches[k - 1] + MIN_REQUEST_INTERVAL
    /\ rate_limit_lock = 0

\* C34: process_with_realtime_api returns its result list and never raises,
\* whatever the calls give and whatever the quota is.
RealtimeNeverRaises == rtPc # "raised"

\* C35: an item whose call failed counts as processed from then on: its
\* placeholder stays in the checkpoint file where it is, and no invocation
\* attempts an item that has a placeholder in the file.
FailedOnDisk ==
    {file[k].original_id : k \in {m \in 1..Len(file) : file[m].error}}

PlaceholderStep ==
    /\ \A k \in 1..Len(file) :
          file[k].error => (Len(file') >= k /\ file'[k] = file[k])
    /\ Len(sessionAttempts') > Len(sessionAttempts) =>
          sessionAttempts'[Len(sessionAttempts')] \notin FailedOnDisk

PlaceholderFinal == [][PlaceholderStep]_vars

\* a later invocation found the placeholder of an earlier one in the
\* checkpoint, attempted other items only and came to its end
PlaceholderFinalWitness ==
    /\ invocations >= 2
    /\ rtPc \in {"returned", "raised"}
    /\ sessionAttempts # <<>>
    /\ \E k \in 1..Len(file) :
          /\ file[k].error
          /\ file[k].original_id \in processedBefore
          /\ \A m \in 1..Len(sessionAttempts) :
                sessionAttempts[m] # file[k].original_id

\* C36: process_batch_workflow calls prepare, submit, wait and retrieve in
\* that order, calls retrieve_results only after wait_for_completion gave
\* true for a job seen SUCCEEDED, and returns None without retrieving when
\* it was told not to wait or when the wait gave false.
WorkflowOrder == <<"prepare", "submit", "wait", "retrieve">>

Retrieved == \E k \in 1..Len(workflow_calls) : workflow_calls[k] = "retrieve"

Waited == \E k \in 1..Len(workflow_calls) : workflow_calls[k] = "wait"

RetrieveOnlyAfterSuccess ==
    /\ Len(workflow_calls) <= Len(WorkflowOrder)
    /\ workflow_calls = SubSeq(WorkflowOrder, 1, Len(workflow_calls))
    /\ Retrieved =>
          /\ wait_for_completion
          /\ wPc = "returned"
          /\ wReturn = "true"
          /\ status = "JOB_STATE_SUCCEEDED"
          /\ batch_job_state = "JOB_STATE_SUCCEEDED"
    /\ ~wait_for_completion => ~Waited
    /\ (wfPc = "returned" /\ (~wait_for_completion \/ wReturn = "false")) =>
          (workflow_result = "None" /\ ~Retrieved /\ rPc = "idle")
    /\ workflow_result = "results" => (Retrieved /\ downloaded)

\* the workflow waited for a job that failed or was cancelled or did not
\* finish in time, and returned None without asking for results
RetrieveOnlyAfterSuccessWitness ==
    /\ wfPc = "returned"
    /\ wait_for_completion
    /\ wReturn = "false"
    /\ polls >= 1
    /\ workflow_result = "None"
    /\ workflow_calls = <<"prepare", "submit", "wait">>

\* C37: the calls of get_analyzer between two resets all return one and the
\* same instance, calls separated by a reset return different instances,
\* and at most one instance is constructed before the first reset and
\* after each reset.
OneInstance ==
    /\ created <= resets + 1
    /\ cached_analyzer \in {0, created}
    /\ \A i, j \in 1..Len(returns) :
          /\ returns[i].analyzer \in 1..created
          /\ returns[i].after_resets = returns[j].after_resets
                => returns[i].analyzer = returns[j].analyzer
          /\ returns[i].after_resets # returns[j].after_resets
                => returns[i].analyzer # returns[j].analyzer

\* two calls returned the first instance, the singleton was reset, and a
\* later call constructed and returned the second one
OneInstanceWitness ==
    /\ Len(returns) = 3
    /\ returns[1].analyzer = 1
    /\ returns[2].analyzer = 1
    /\ returns[3].analyzer = 2
    /\ returns[3].after_resets = 1
    /\ created = 2

\* C38: a request for the results of a job that is not SUCCEEDED is
\* answered with status 400 and does not call retrieve_results.
NotReady400 ==
    (epPc = "responded" /\ endpoint_state \notin {"none", "JOB_STATE_SUCCEEDED"}) =>
        (http_status = 400 /\ ~retrieve_called)

====
